---- MODULE Spec2Model ----
(***************************************************************************)
(* A model of the virtual-twin production line simulator:                  *)
(*   - TopologyGraph (simpy_demo/topology/graph.py)                        *)
(*   - EventAggregator (simpy_demo/aggregation.py)                         *)
(*   - the station processes, their phase pipeline and the buffers they    *)
(*     share (virtual_twin/equipment.py, behavior/phases, engine.py,       *)
(*     simulation/layout.py)                                               *)
(* Simulated time is counted in integer ticks.                             *)
(***************************************************************************)
EXTENDS Integers, Sequences, FiniteSets, TLC

VARIABLES
    \* TopologyGraph
    nodes,               \* _nodes: names in insertion order
    edges,               \* _edges
    outgoing,            \* _outgoing: name -> edges leaving it
    incoming,            \* _incoming: name -> edges entering it
    \* EventAggregator
    bucket_size_sec,
    sim_start_ts,        \* the wall-clock reading the run's timestamps are offsets from
    buckets,             \* _buckets: <<bucket_index, machine_name>> -> BucketStats
    event_buffer,        \* _event_buffer: deque(maxlen = CONTEXT_WINDOW * 20)
    interesting_indices, \* _interesting_indices
    event_index,         \* _event_index
    last_state,          \* _last_state: machine_name -> <<state, sim_time_sec>>
    \* the simulation
    env,                 \* simpy.Environment: now, the event queue, the next event id
    stores,              \* every simpy.Store of the layout, by name
    machines,            \* every Equipment of the layout, by name, with its process
    order,               \* the machines in the order they were created
    rng,                 \* the random module's generator and the entropy uuid4 reads
    made,                \* number of Product objects constructed so far
    get_log,             \* (history) every item a store handed to a get, in order
    put_log,             \* (history) every item a store accepted from a put, in order
    run,                 \* the RunConfig of run_resolved, and the start time it settled on
    results,             \* what each finished call of run_resolved returned, in order
    \* the last call made, with what it returned or raised
    ret

topoVars == <<nodes, edges, outgoing, incoming>>
aggVars == <<bucket_size_sec, sim_start_ts, buckets, event_buffer, interesting_indices, event_index, last_state>>
simVars == <<env, stores, machines, order, rng, made, get_log, put_log, run, results>>
vars == <<nodes, edges, outgoing, incoming,
          bucket_size_sec, sim_start_ts, buckets, event_buffer, interesting_indices,
          event_index, last_state,
          env, stores, machines, order, rng, made, get_log, put_log, run, results,
          ret>>

\* None where a string is expected
None == "None"
\* Optional numbers: Nothing is None, Some(x) holds x
Nothing == <<>>
Some(x) == <<x>>
IsSome(o) == o # <<>>
Val(o) == o[1]
NoCall == [op |-> "none"]

\* a fresh simpy.Environment
NewEnvironment == [now |-> 0, queue |-> <<>>, eid |-> 0]
\* the random module as imported: not seeded by the program, nothing drawn yet
NewRandom == [seeded |-> FALSE, tape |-> <<>>, pos |-> 0, entropy |-> 0]

\* RunConfig: the fields run_resolved reads, and its local start_time once set
RunConfig(random_seed, start_time, duration_sec) ==
    [random_seed |-> random_seed, start_time |-> start_time, duration_sec |-> duration_sec,
     started |-> Nothing]

\* no layout has been built
NoWorld ==
    /\ env = NewEnvironment
    /\ stores = <<>>
    /\ machines = <<>>
    /\ order = <<>>
    /\ rng = NewRandom
    /\ made = 0
    /\ get_log = <<>>
    /\ put_log = <<>>

\* the same, and run_resolved has not been called
NoSimulation ==
    /\ NoWorld
    /\ run = RunConfig(Nothing, Nothing, 0)
    /\ results = <<>>

Min(a, b) == IF a < b THEN a ELSE b
Max(a, b) == IF a > b THEN a ELSE b

RECURSIVE SumSeq(_)
SumSeq(s) == IF s = <<>> THEN 0 ELSE Head(s) + SumSeq(Tail(s))

SeqToSet(s) == {s[i] : i \in 1..Len(s)}
IsPrefix(s, t) == Len(s) <= Len(t) /\ SubSeq(t, 1, Len(s)) = s

(***************************************************************************)
(* TopologyGraph                                                           *)
(***************************************************************************)
SPECIAL_NODES == {"_source", "_sink", "_reject"}

\* names the model adds as ordinary stations
OrdinaryNames == {"A", "B"}
\* endpoints the model draws edges from
EdgeSources == OrdinaryNames \cup {"_source", "_sink"}
EdgeTargets == OrdinaryNames \cup {"_sink"}
MaxEdges == 3

\* StationNode.is_special: the name starts with an underscore
is_special(name) == name \in SPECIAL_NODES

Graph == [nodes |-> nodes, edges |-> edges, outgoing |-> outgoing, incoming |-> incoming]
EmptyGraph == [nodes |-> <<>>, edges |-> <<>>, outgoing |-> <<>>, incoming |-> <<>>]

HasNode(g, name) == name \in SeqToSet(g.nodes)

ExtendWith(f, name) == [n \in (DOMAIN f) \cup {name} |-> IF n \in DOMAIN f THEN f[n] ELSE <<>>]

\* TopologyGraph.add_node past its duplicate check
add_node(g, name) ==
    [g EXCEPT !.nodes = Append(@, name),
              !.outgoing = ExtendWith(@, name),
              !.incoming = ExtendWith(@, name)]

\* BufferEdge.__post_init__: the edge is constructed or ValueError is raised
BufferEdgeError(source, target) == source = target

BufferEdge(source, target, condition) ==
    [source |-> source, target |-> target, condition |-> condition, capacity_override |-> Nothing]

\* (mutant) a name that is not a node is created whatever it is
EnsureNodeAlways(r, name) ==
    IF r.error # None THEN r
    ELSE IF HasNode(r.g, name) THEN r
    ELSE [r EXCEPT !.g = add_node(r.g, name)]

\* one iteration of add_edge's loop over [edge.source, edge.target]
EnsureNode(r, name) ==
    IF r.error # None THEN r
    ELSE IF HasNode(r.g, name) THEN r
    ELSE IF name \in SPECIAL_NODES THEN [r EXCEPT !.g = add_node(r.g, name)]
    ELSE [r EXCEPT !.error = "ValueError"]

\* TopologyGraph.add_edge: the graph it leaves and the error it raises
add_edge(g, e) ==
    LET r == EnsureNode(EnsureNode([g |-> g, error |-> None], e.source), e.target)
    IN IF r.error # None THEN r
       ELSE [g |-> [r.g EXCEPT !.edges = Append(@, e),
                               !.outgoing[e.source] = Append(@, e),
                               !.incoming[e.target] = Append(@, e)],
             error |-> None]

\* in_degree as topological_order first computes it
InDegree(g) ==
    [n \in SeqToSet(g.nodes) |-> Cardinality({i \in 1..Len(g.edges) : g.edges[i].target = n})]

\* (mutant) every successor is queued, whatever in-degree it has left
ReadyAlways(degree) == TRUE

\* the successor test of Kahn's loop: the node is queued when its in-degree reaches 0
ReadyAfterDecrement(degree) == degree = 0

\* the loop over self._outgoing[name] inside topological_order
RECURSIVE Relax(_, _, _)
Relax(out, i, st) ==
    IF i > Len(out) THEN st
    ELSE LET t == out[i].target
             d == st.in_degree[t] - 1
         IN Relax(out, i + 1,
                  [st EXCEPT !.in_degree[t] = d,
                             !.queue = IF ReadyAfterDecrement(d) THEN Append(@, t) ELSE @])

\* the while-queue loop of topological_order
RECURSIVE KahnLoop(_, _)
KahnLoop(g, st) ==
    IF st.queue = <<>> THEN st
    ELSE LET name == Head(st.queue)
             popped == [st EXCEPT !.queue = Tail(@), !.emitted = Append(@, name)]
         IN KahnLoop(g, Relax(g.outgoing[name], 1, popped))

\* (mutant) the final test compares the wrong way round and never fires
CycleCheckNever(visited, total) == visited > total

\* the final test of topological_order: visited != len(self._nodes)
CycleCheck(visited, total) == visited # total

\* exhausting topological_order(): the nodes yielded, and the error raised at the end
topological_order(g) ==
    LET deg == InDegree(g)
        st == KahnLoop(g, [in_degree |-> deg,
                           queue |-> SelectSeq(g.nodes, LAMBDA n : deg[n] = 0),
                           emitted |-> <<>>])
        visited == Len(st.emitted)
    IN [emitted |-> st.emitted,
        error |-> IF CycleCheck(visited, Len(g.nodes)) THEN "CycleDetectedError" ELSE None,
        reported |-> IF CycleCheck(visited, Len(g.nodes)) THEN Some(visited) ELSE Nothing]

\* the edges a dict of edge lists holds for a name: dict.get(name, [])
EdgesOf(f, name) == IF name \in DOMAIN f THEN f[name] ELSE <<>>

\* (mutant) a node counts as an orphan when it lacks incoming or outgoing edges
OrphanEither(g, name) == g.incoming[name] = <<>> \/ g.outgoing[name] = <<>>

\* check 3 of validate: not self._incoming[name] and not self._outgoing[name]
Orphan(g, name) == g.incoming[name] = <<>> /\ g.outgoing[name] = <<>>

\* check 5 of validate: some, but not all, outgoing edges carry a condition
MixedOutgoing(g, name) ==
    LET out == EdgesOf(g.outgoing, name)
        conditional_edges == SelectSeq(out, LAMBDA e : e.condition # None)
    IN conditional_edges # <<>> /\ Len(conditional_edges) # Len(out)

\* the messages of validate, each with the values it is formatted from
NoInput == [msg |-> "No edges from _source - line has no input"]
NoOutput == [msg |-> "No edges to _sink - line has no output"]
OrphanNode(name) == [msg |-> "Orphan node with no connections", name |-> name]
CycleMessage(visited, total) ==
    [msg |-> "Topology graph contains a cycle", visited |-> visited, total |-> total]
MixedNode(name) == [msg |-> "mixed conditional/unconditional outgoing edges", name |-> name]

\* one message per name of the list, in the list's order
Report(names, message(_)) == [i \in 1..Len(names) |-> message(names[i])]

\* (mutant) the error of topological_order is not caught
validatePropagating(g) ==
    [errors |-> <<>>, error |-> topological_order(g).error]

\* TopologyGraph.validate: the list it returns and the error it raises
validate(g) ==
    LET sorted == topological_order(g)
    IN [errors |->
            (IF EdgesOf(g.outgoing, "_source") = <<>> THEN <<NoInput>> ELSE <<>>)
            \o (IF EdgesOf(g.incoming, "_sink") = <<>> THEN <<NoOutput>> ELSE <<>>)
            \o Report(SelectSeq(g.nodes, LAMBDA name : ~is_special(name) /\ Orphan(g, name)),
                      OrphanNode)
            \o (IF sorted.error = "CycleDetectedError"
                THEN <<CycleMessage(Val(sorted.reported), Len(g.nodes))>> ELSE <<>>)
            \o Report(SelectSeq(g.nodes, LAMBDA name : MixedOutgoing(g, name)), MixedNode),
        error |-> None]

\* TopologyGraph.is_valid
is_valid(g) == Len(validate(g).errors) = 0

SetGraph(g) ==
    /\ nodes' = g.nodes
    /\ edges' = g.edges
    /\ outgoing' = g.outgoing
    /\ incoming' = g.incoming

EmptyTopo ==
    /\ nodes = <<>>
    /\ edges = <<>>
    /\ outgoing = <<>>
    /\ incoming = <<>>

(***************************************************************************)
(* EventAggregator                                                         *)
(***************************************************************************)
INTERESTING_STATES == {"DOWN", "JAMMED"}
CONTEXT_WINDOW == 5
TRACKED_STATES == {"EXECUTE", "STARVED", "BLOCKED", "DOWN", "JAMMED"}
\* maxlen of _event_buffer
EventBufferMaxLen == CONTEXT_WINDOW * 20

Aggregator ==
    [bucket_size_sec |-> bucket_size_sec, sim_start_ts |-> sim_start_ts, buckets |-> buckets,
     event_buffer |-> event_buffer,
     interesting_indices |-> interesting_indices, event_index |-> event_index,
     last_state |-> last_state]

\* EventAggregator(bucket_size_sec = size, sim_start_ts = start) as the dataclass
\* constructs it; a caller that leaves sim_start_ts out gets datetime.now()
NewAggregator(size, start) ==
    [bucket_size_sec |-> size, sim_start_ts |-> start, buckets |-> <<>>, event_buffer |-> <<>>,
     interesting_indices |-> <<>>, event_index |-> 0, last_state |-> <<>>]

\* a new BucketStats
BucketStats(bucket_index, bucket_start_ts, machine_name) ==
    [bucket_index |-> bucket_index, bucket_start_ts |-> bucket_start_ts,
     machine_name |-> machine_name,
     execute_sec |-> 0, starved_sec |-> 0, blocked_sec |-> 0, down_sec |-> 0, jammed_sec |-> 0,
     transition_count |-> 0, down_count |-> 0, jammed_count |-> 0]

\* (mutant) add_duration that knows no STARVED branch
add_duration_unstarved(bucket, state, duration) ==
    CASE state = "EXECUTE" -> [bucket EXCEPT !.execute_sec = @ + duration]
      [] state = "BLOCKED" -> [bucket EXCEPT !.blocked_sec = @ + duration]
      [] state = "DOWN" -> [bucket EXCEPT !.down_sec = @ + duration]
      [] state = "JAMMED" -> [bucket EXCEPT !.jammed_sec = @ + duration]
      [] OTHER -> bucket

\* BucketStats.add_duration
add_duration(bucket, state, duration) ==
    CASE state = "EXECUTE" -> [bucket EXCEPT !.execute_sec = @ + duration]
      [] state = "STARVED" -> [bucket EXCEPT !.starved_sec = @ + duration]
      [] state = "BLOCKED" -> [bucket EXCEPT !.blocked_sec = @ + duration]
      [] state = "DOWN" -> [bucket EXCEPT !.down_sec = @ + duration]
      [] state = "JAMMED" -> [bucket EXCEPT !.jammed_sec = @ + duration]
      [] OTHER -> bucket

\* BucketStats.total_sec
total_sec(bucket) ==
    bucket.execute_sec + bucket.starved_sec + bucket.blocked_sec + bucket.down_sec
        + bucket.jammed_sec

\* EventAggregator._get_bucket_index: int(sim_time_sec // bucket_size_sec)
get_bucket_index(a, sim_time_sec) == sim_time_sec \div a.bucket_size_sec

\* EventAggregator._get_or_create_bucket: the aggregator with the bucket present
get_or_create_bucket(a, bucket_index, machine_name) ==
    LET key == <<bucket_index, machine_name>>
        bucket_start_ts == a.sim_start_ts + bucket_index * a.bucket_size_sec
    IN IF key \in DOMAIN a.buckets THEN a
       ELSE [a EXCEPT !.buckets =
                [k \in (DOMAIN a.buckets) \cup {key} |->
                    IF k = key THEN BucketStats(bucket_index, bucket_start_ts, machine_name)
                    ELSE a.buckets[k]]]

\* get the bucket (created when missing) and add the duration to it
AddToBucket(a, bucket_index, machine_name, state, duration) ==
    LET b == get_or_create_bucket(a, bucket_index, machine_name)
    IN [b EXCEPT !.buckets[<<bucket_index, machine_name>>] = add_duration(@, state, duration)]

\* (mutant) the last segment is not clipped at the end of the interval
SegmentEndUnclipped(bucket_end, end_time_sec) == bucket_end

\* where a segment of a spanning duration ends: min(bucket_end, end_time_sec)
SegmentEnd(bucket_end, end_time_sec) == Min(bucket_end, end_time_sec)

\* the for-loop of _accumulate_duration over range(start_bucket, end_bucket + 1)
RECURSIVE AccumulateLoop(_, _, _, _, _, _, _)
AccumulateLoop(a, machine_name, state, bucket_idx, end_bucket, current_time, end_time_sec) ==
    IF bucket_idx > end_bucket THEN a
    ELSE LET bucket_end == (bucket_idx + 1) * a.bucket_size_sec
             segment_end == SegmentEnd(bucket_end, end_time_sec)
             segment_duration == segment_end - current_time
             b == IF segment_duration > 0
                  THEN AddToBucket(a, bucket_idx, machine_name, state, segment_duration)
                  ELSE a
         IN AccumulateLoop(b, machine_name, state, bucket_idx + 1, end_bucket, segment_end,
                           end_time_sec)

\* (mutant) the whole duration goes to the bucket the interval starts in
accumulate_duration_unsplit(a, machine_name, state, start_time_sec, end_time_sec) ==
    IF end_time_sec <= start_time_sec THEN a
    ELSE AddToBucket(a, get_bucket_index(a, start_time_sec), machine_name, state,
                     end_time_sec - start_time_sec)

\* EventAggregator._accumulate_duration
accumulate_duration(a, machine_name, state, start_time_sec, end_time_sec) ==
    IF end_time_sec <= start_time_sec THEN a
    ELSE LET start_bucket == get_bucket_index(a, start_time_sec)
             end_bucket == get_bucket_index(a, end_time_sec)
         IN IF start_bucket = end_bucket
            THEN AddToBucket(a, start_bucket, machine_name, state,
                             end_time_sec - start_time_sec)
            ELSE AccumulateLoop(a, machine_name, state, start_bucket, end_bucket,
                                start_time_sec, end_time_sec)

\* deque.append on a deque with maxlen: the oldest entry is dropped when full
DequeAppend(buffer, event) ==
    IF Len(buffer) >= EventBufferMaxLen THEN Append(Tail(buffer), event)
    ELSE Append(buffer, event)

BufferedEvent(index, sim_time_sec, machine_name, state, prev_state, duration_sec) ==
    [index |-> index, sim_time_sec |-> sim_time_sec, machine_name |-> machine_name,
     state |-> state, prev_state |-> prev_state, duration_sec |-> duration_sec]

\* step 4 of on_state_change: the counts of the bucket holding sim_time_sec
CountTransition(a, machine_name, new_state, sim_time_sec) ==
    LET bucket_idx == get_bucket_index(a, sim_time_sec)
        b == get_or_create_bucket(a, bucket_idx, machine_name)
    IN [b EXCEPT !.buckets[<<bucket_idx, machine_name>>] =
            [@ EXCEPT !.transition_count = @ + 1,
                      !.down_count = IF new_state = "DOWN" THEN @ + 1 ELSE @,
                      !.jammed_count = IF new_state = "JAMMED" THEN @ + 1 ELSE @]]

\* EventAggregator.on_state_change
on_state_change(a, machine_name, new_state, sim_time_sec, prev_state, duration_sec) ==
    LET a1 == IF prev_state # None /\ IsSome(duration_sec) /\ Val(duration_sec) > 0
              THEN accumulate_duration(a, machine_name, prev_state,
                                       sim_time_sec - Val(duration_sec), sim_time_sec)
              ELSE a
        event == BufferedEvent(a.event_index, sim_time_sec, machine_name, new_state,
                               prev_state, duration_sec)
        a2 == [a1 EXCEPT !.event_buffer = DequeAppend(@, event),
                         !.interesting_indices =
                             IF new_state \in INTERESTING_STATES
                             THEN Append(@, a.event_index) ELSE @]
        a3 == CountTransition(a2, machine_name, new_state, sim_time_sec)
    IN [a3 EXCEPT !.last_state =
                      [m \in (DOMAIN a3.last_state) \cup {machine_name} |->
                          IF m = machine_name THEN <<new_state, sim_time_sec>>
                          ELSE a3.last_state[m]],
                  !.event_index = @ + 1]

\* position in the buffer of the event with the given index (index_to_pos), 0 when evicted
index_to_pos(buffer_list, idx) ==
    IF \E i \in 1..Len(buffer_list) : buffer_list[i].index = idx
    THEN CHOOSE i \in 1..Len(buffer_list) : buffer_list[i].index = idx
    ELSE 0

\* (mutant) the window stops one event short after the interesting one
ContextOffsetsHalfOpen == (0 - CONTEXT_WINDOW)..(CONTEXT_WINDOW - 1)

\* range(-CONTEXT_WINDOW, CONTEXT_WINDOW + 1)
ContextOffsets == (0 - CONTEXT_WINDOW)..CONTEXT_WINDOW

\* the indices get_detail_df collects: each interesting event still buffered and its context
indices_to_include(a) ==
    LET buffer_list == a.event_buffer
    IN UNION {LET pos == index_to_pos(buffer_list, a.interesting_indices[k])
              IN IF pos = 0 THEN {}
                 ELSE {buffer_list[pos + offset].index :
                          offset \in {o \in ContextOffsets :
                                         pos + o >= 1 /\ pos + o <= Len(buffer_list)}}
              : k \in 1..Len(a.interesting_indices)}

\* one row of the detail frame
DetailRow(a, event) ==
    [ts |-> a.sim_start_ts + event.sim_time_sec, sim_time_sec |-> event.sim_time_sec,
     machine_name |-> event.machine_name, state |-> event.state,
     prev_state |-> event.prev_state, duration_sec |-> event.duration_sec,
     is_interesting |-> event.index \in SeqToSet(a.interesting_indices)]

RECURSIVE DetailRows(_, _, _)
DetailRows(a, include, i) ==
    IF i > Len(a.event_buffer) THEN <<>>
    ELSE IF a.event_buffer[i].index \in include
         THEN <<DetailRow(a, a.event_buffer[i])>> \o DetailRows(a, include, i + 1)
         ELSE DetailRows(a, include, i + 1)

\* insert a row into rows already sorted by sim_time_sec, after its equals
InsertBySimTime(rows, row) ==
    LET k == Cardinality({i \in 1..Len(rows) : rows[i].sim_time_sec <= row.sim_time_sec})
    IN SubSeq(rows, 1, k) \o <<row>> \o SubSeq(rows, k + 1, Len(rows))

\* df.sort_values("sim_time_sec")
RECURSIVE SortBySimTime(_)
SortBySimTime(rows) ==
    IF rows = <<>> THEN <<>>
    ELSE InsertBySimTime(SortBySimTime(SubSeq(rows, 1, Len(rows) - 1)), rows[Len(rows)])

\* EventAggregator.get_detail_df: the rows, or the error sort_values raises on a frame
\* built from no rows (it has no sim_time_sec column)
get_detail_df(a) ==
    IF a.interesting_indices = <<>> \/ a.event_buffer = <<>>
    THEN [rows |-> <<>>, error |-> None]
    ELSE LET rows == DetailRows(a, indices_to_include(a), 1)
         IN IF rows = <<>> THEN [rows |-> <<>>, error |-> "KeyError"]
            ELSE [rows |-> SortBySimTime(rows), error |-> None]

\* EventAggregator.finalize: the loop over _last_state.items()
RECURSIVE FinalizeLoop(_, _, _)
FinalizeLoop(a, names, total_time_sec) ==
    IF names = {} THEN a
    ELSE LET machine_name == CHOOSE n \in names : TRUE
             state == a.last_state[machine_name][1]
             last_time == a.last_state[machine_name][2]
         IN FinalizeLoop(IF last_time < total_time_sec
                         THEN accumulate_duration(a, machine_name, state, last_time,
                                                  total_time_sec)
                         ELSE a,
                         names \ {machine_name}, total_time_sec)

\* (mutant) the open interval is not split: all of it is added to bucket 0
finalize_unsplit(a, total_time_sec) ==
    [FinalizeLoop([a EXCEPT !.bucket_size_sec = total_time_sec + 1], DOMAIN a.last_state,
                  total_time_sec)
     EXCEPT !.bucket_size_sec = a.bucket_size_sec]

finalize(a, total_time_sec) == FinalizeLoop(a, DOMAIN a.last_state, total_time_sec)

\* BucketStats.availability_pct, in whole percent; Nothing when there is no time to rate
availability_pct(bucket) ==
    LET total == bucket.execute_sec + bucket.down_sec + bucket.jammed_sec
    IN IF total = 0 THEN Nothing ELSE Some((bucket.execute_sec * 100) \div total)

\* the machine names of the model in the order sort_values puts strings
SortedNames == <<"A", "B", "C", "Filler", "Inspector", "Packer">>

\* EventAggregator.get_summary_df: a row per bucket, sorted by machine_name and
\* then bucket_index
RECURSIVE SummaryRows(_, _)
SummaryRows(a, keys) ==
    IF keys = {} THEN <<>>
    ELSE LET rank(k) == CHOOSE i \in 1..Len(SortedNames) : SortedNames[i] = k[2]
             first == CHOOSE k \in keys : \A o \in keys \ {k} :
                          \/ rank(k) < rank(o)
                          \/ rank(k) = rank(o) /\ k[1] < o[1]
             bucket == a.buckets[first]
             row == [bucket_start_ts |-> bucket.bucket_start_ts,
                     bucket_index |-> bucket.bucket_index,
                     machine_name |-> bucket.machine_name,
                     execute_sec |-> bucket.execute_sec, starved_sec |-> bucket.starved_sec,
                     blocked_sec |-> bucket.blocked_sec, down_sec |-> bucket.down_sec,
                     jammed_sec |-> bucket.jammed_sec,
                     transition_count |-> bucket.transition_count,
                     down_count |-> bucket.down_count, jammed_count |-> bucket.jammed_count,
                     availability_pct |-> availability_pct(bucket)]
         IN <<row>> \o SummaryRows(a, keys \ {first})

get_summary_df(a) == SummaryRows(a, DOMAIN a.buckets)

SetAggregator(a) ==
    /\ bucket_size_sec' = a.bucket_size_sec
    /\ sim_start_ts' = a.sim_start_ts
    /\ buckets' = a.buckets
    /\ event_buffer' = a.event_buffer
    /\ interesting_indices' = a.interesting_indices
    /\ event_index' = a.event_index
    /\ last_state' = a.last_state

IsAggregator(a) ==
    /\ bucket_size_sec = a.bucket_size_sec
    /\ sim_start_ts = a.sim_start_ts
    /\ buckets = a.buckets
    /\ event_buffer = a.event_buffer
    /\ interesting_indices = a.interesting_indices
    /\ event_index = a.event_index
    /\ last_state = a.last_state

\* no aggregator has been constructed
NoAggregator == IsAggregator(NewAggregator(1, 0))

InitTopo ==
    /\ EmptyTopo
    /\ NoAggregator
    /\ NoSimulation
    /\ ret = NoCall

AddNode(name) ==
    /\ UNCHANGED <<aggVars, simVars>>
    /\ IF HasNode(Graph, name)
       THEN /\ UNCHANGED topoVars
            /\ ret' = [op |-> "add_node", name |-> name, error |-> "ValueError"]
       ELSE /\ SetGraph(add_node(Graph, name))
            /\ ret' = [op |-> "add_node", name |-> name, error |-> None]

AddEdge(source, target) ==
    /\ Len(edges) < MaxEdges
    /\ UNCHANGED <<aggVars, simVars>>
    /\ IF BufferEdgeError(source, target)
       THEN /\ UNCHANGED topoVars
            /\ ret' = [op |-> "BufferEdge", source |-> source, target |-> target,
                       error |-> "ValueError"]
       ELSE LET r == add_edge(Graph, BufferEdge(source, target, None))
            IN /\ SetGraph(r.g)
               /\ ret' = [op |-> "add_edge", source |-> source, target |-> target,
                          error |-> r.error]

TopologicalOrder ==
    /\ UNCHANGED <<topoVars, aggVars, simVars>>
    /\ ret' = [op |-> "topological_order"] @@ topological_order(Graph)

NextTopo ==
    \/ \E name \in OrdinaryNames : AddNode(name)
    \/ \E source \in EdgeSources, target \in EdgeTargets : AddEdge(source, target)
    \/ TopologicalOrder

SpecTopo == InitTopo /\ [][NextTopo]_vars

(***************************************************************************)
(* Direct calls of on_state_change, as the aggregator's unit tests make    *)
(***************************************************************************)
BucketSizes == {2, 3}
MaxCalls == 2
MaxSimTime == 4
MaxDuration == 4
\* <<prev_state, new_state>> pairs the calls are made with
CallTransitions == {<<"EXECUTE", "DOWN">>, <<"IDLE", "STARVED">>}

InitAgg ==
    /\ EmptyTopo
    /\ NoSimulation
    /\ \E size \in BucketSizes : IsAggregator(NewAggregator(size, 0))
    /\ ret = NoCall

OnStateChange(machine_name, new_state, sim_time_sec, prev_state, duration_sec) ==
    /\ SetAggregator(on_state_change(Aggregator, machine_name, new_state, sim_time_sec,
                                     prev_state, duration_sec))
    /\ ret' = [op |-> "on_state_change", machine_name |-> machine_name,
               new_state |-> new_state, sim_time_sec |-> sim_time_sec,
               prev_state |-> prev_state, duration_sec |-> duration_sec]
    /\ UNCHANGED <<topoVars, simVars>>

NextAgg ==
    \E tr \in CallTransitions, t \in 0..MaxSimTime, d \in {Nothing} \cup {Some(x) : x \in 0..MaxDuration} :
        /\ event_index < MaxCalls
        /\ OnStateChange("Filler", tr[2], t, tr[1], d)

SpecAgg == InitAgg /\ [][NextAgg]_vars

(***************************************************************************)
(* A stream of events around one DOWN/JAMMED event, then get_detail_df     *)
(***************************************************************************)
MaxBefore == 6
MaxAfter == 101

\* (mutant) the export hands the buffered events over and forgets them
GetDetailDraining ==
    /\ UNCHANGED <<topoVars, simVars, bucket_size_sec, sim_start_ts, buckets, event_index,
                   last_state>>
    /\ event_buffer' = <<>>
    /\ interesting_indices' = <<>>
    /\ ret' = [op |-> "get_detail_df"] @@ get_detail_df(Aggregator)

GetDetail ==
    /\ UNCHANGED <<topoVars, aggVars, simVars>>
    /\ ret' = [op |-> "get_detail_df"] @@ get_detail_df(Aggregator)

\* events recorded before and after the first interesting one
EventsBefore == IF interesting_indices = <<>> THEN event_index ELSE interesting_indices[1]
EventsAfter == IF interesting_indices = <<>> THEN 0 ELSE event_index - interesting_indices[1] - 1

NextCtx ==
    \/ /\ interesting_indices = <<>>
       /\ event_index < MaxBefore
       /\ OnStateChange("Filler", "EXECUTE", event_index, "STARVED", Some(1))
    \/ /\ interesting_indices = <<>>
       /\ \E s \in INTERESTING_STATES : OnStateChange("Filler", s, event_index, "EXECUTE", Some(1))
    \/ /\ interesting_indices # <<>>
       /\ EventsAfter < MaxAfter
       /\ OnStateChange("Filler", "EXECUTE", event_index, "STARVED", Some(1))
    \/ GetDetail

SpecCtx == InitAgg /\ [][NextCtx]_vars

(***************************************************************************)
(* The calls Equipment.log makes for two stations, then finalize; the      *)
(* exports at any point                                                    *)
(***************************************************************************)
LoggedMachines == {"A", "B"}
LoggedStates == {"EXECUTE", "DOWN"}

\* the state a station is in and the time it entered it: IDLE since 0 at first
StateOf(machine_name) ==
    IF machine_name \in DOMAIN last_state THEN last_state[machine_name][1] ELSE "IDLE"
StartOf(machine_name) ==
    IF machine_name \in DOMAIN last_state THEN last_state[machine_name][2] ELSE 0

\* the time of the latest call: env.now never goes back
LatestCall ==
    LET times == {StartOf(m) : m \in LoggedMachines}
    IN CHOOSE t \in times : \A u \in times : u <= t

InitFin ==
    /\ EmptyTopo
    /\ NoSimulation
    /\ \E size \in BucketSizes : IsAggregator(NewAggregator(size, 0))
    /\ ret = NoCall

\* Equipment.log(new_state) of the station at time now: the aggregator is told the
\* state that ends and the time spent in it
Log(machine_name, new_state, now) ==
    /\ results = <<>>
    /\ event_index < MaxCalls
    /\ now >= LatestCall
    /\ new_state # StateOf(machine_name)
    /\ OnStateChange(machine_name, new_state, now, StateOf(machine_name),
                     Some(now - StartOf(machine_name)))

\* aggregator.finalize(total_time_sec), once, after the last event; results keeps
\* the time it was called with
Finalize(total_time_sec) ==
    /\ results = <<>>
    /\ SetAggregator(finalize(Aggregator, total_time_sec))
    /\ ret' = [op |-> "finalize", total_time_sec |-> total_time_sec]
    /\ results' = <<[total_time_sec |-> total_time_sec]>>
    /\ UNCHANGED <<topoVars, env, stores, machines, order, rng, made, get_log, put_log, run>>

\* aggregator.get_summary_df()
GetSummary ==
    /\ UNCHANGED <<topoVars, aggVars, simVars>>
    /\ ret' = [op |-> "get_summary_df", rows |-> get_summary_df(Aggregator)]

NextFin ==
    \/ \E m \in LoggedMachines, s \in LoggedStates, now \in 0..MaxSimTime : Log(m, s, now)
    \/ \E total_time_sec \in 0..(MaxSimTime + 2) : Finalize(total_time_sec)
    \/ GetSummary
    \/ GetDetail

SpecFin == InitFin /\ [][NextFin]_vars

\* aggregator.finalize(total_time_sec) called a second time, right after the
\* first call and with the same argument
FinalizeAgain ==
    /\ ret.op = "finalize"
    /\ SetAggregator(finalize(Aggregator, ret.total_time_sec))
    /\ ret' = [op |-> "finalize_again", total_time_sec |-> ret.total_time_sec,
               rows |-> buckets]
    /\ UNCHANGED <<topoVars, simVars>>

NextAgain ==
    \/ NextFin
    \/ FinalizeAgain

SpecAgain == InitFin /\ [][NextAgain]_vars

(***************************************************************************)
(* simpy: the event queue and Store, as the library documents them         *)
(***************************************************************************)
\* event priorities: an Initialize event is urgent, every other event normal
URGENT == 0
NORMAL == 1

World ==
    [env |-> env, stores |-> stores, machines |-> machines, order |-> order, rng |-> rng,
     made |-> made, get_log |-> get_log, put_log |-> put_log, agg |-> Aggregator]

SetWorld(w) ==
    /\ env' = w.env
    /\ stores' = w.stores
    /\ machines' = w.machines
    /\ order' = w.order
    /\ rng' = w.rng
    /\ made' = w.made
    /\ get_log' = w.get_log
    /\ put_log' = w.put_log
    /\ SetAggregator(w.agg)

\* an event with its callbacks: the process to resume and the store to re-trigger
Event(kind, proc, store, value) ==
    [kind |-> kind, proc |-> proc, store |-> store, value |-> value]

\* (mutant) the queue is kept in the order of submission alone
scheduleAtEnd(w, event, priority, delay) ==
    [w EXCEPT !.env.queue = Append(@, [time |-> w.env.now + delay, priority |-> priority,
                                       eid |-> w.env.eid, event |-> event]),
              !.env.eid = @ + 1]

\* Environment.schedule: the queue is ordered by (time, priority, eid)
schedule(w, event, priority, delay) ==
    LET entry == [time |-> w.env.now + delay, priority |-> priority, eid |-> w.env.eid,
                  event |-> event]
        q == w.env.queue
        k == Cardinality({i \in 1..Len(q) :
                             \/ q[i].time < entry.time
                             \/ q[i].time = entry.time /\ q[i].priority <= priority})
    IN [w EXCEPT !.env.queue = SubSeq(q, 1, k) \o <<entry>> \o SubSeq(q, k + 1, Len(q)),
                 !.env.eid = @ + 1]

\* simpy.Store(env, capacity): capacity Nothing is float("inf")
Store(capacity) ==
    [capacity |-> capacity, items |-> <<>>, get_queue |-> <<>>, put_queue |-> <<>>]

\* (mutant) a store that accepts an item whatever its level
HasRoomAlways(store) == TRUE

\* Store._do_put's test: len(self.items) < self._capacity
HasRoom(store) == ~IsSome(store.capacity) \/ Len(store.items) < Val(store.capacity)

\* Store._trigger_put: the oldest waiting put is admitted when there is room
trigger_put(w, s) ==
    LET store == w.stores[s]
    IN IF store.put_queue = <<>> \/ ~HasRoom(store) THEN w
       ELSE LET request == Head(store.put_queue)
                w1 == [w EXCEPT !.stores[s].items = Append(@, request.item),
                                !.stores[s].put_queue = Tail(@),
                                !.put_log = Append(@, [store |-> s, oid |-> request.item.oid,
                                                       proc |-> request.proc])]
            IN schedule(w1, Event("StorePut", request.proc, s, Nothing), NORMAL, 0)

\* (mutant) the oldest waiting get receives the newest item
trigger_get_newest(w, s) ==
    LET store == w.stores[s]
    IN IF store.get_queue = <<>> \/ store.items = <<>> THEN w
       ELSE LET proc == Head(store.get_queue)
                item == store.items[Len(store.items)]
                w1 == [w EXCEPT !.stores[s].items = SubSeq(@, 1, Len(@) - 1),
                                !.stores[s].get_queue = Tail(@),
                                !.get_log = Append(@, [store |-> s, oid |-> item.oid,
                                                       proc |-> proc])]
            IN schedule(w1, Event("StoreGet", proc, s, Some(item)), NORMAL, 0)

\* Store._trigger_get: the oldest waiting get receives the oldest item
trigger_get(w, s) ==
    LET store == w.stores[s]
    IN IF store.get_queue = <<>> \/ store.items = <<>> THEN w
       ELSE LET proc == Head(store.get_queue)
                item == Head(store.items)
                w1 == [w EXCEPT !.stores[s].items = Tail(@),
                                !.stores[s].get_queue = Tail(@),
                                !.get_log = Append(@, [store |-> s, oid |-> item.oid,
                                                       proc |-> proc])]
            IN schedule(w1, Event("StoreGet", proc, s, Some(item)), NORMAL, 0)

\* store.put(item), called by proc (None when called outside any process)
put(w, s, proc, item) ==
    trigger_put([w EXCEPT !.stores[s].put_queue = Append(@, [proc |-> proc, item |-> item])], s)

\* store.get(), called by proc
get(w, s, proc) ==
    trigger_get([w EXCEPT !.stores[s].get_queue = Append(@, proc)], s)

\* env.timeout(delay), created by proc
timeout(w, proc, delay) == schedule(w, Event("Timeout", proc, Nothing, Nothing), NORMAL, delay)

\* env.process(generator): the process starts at the current time, before normal events
process(w, proc) == schedule(w, Event("Initialize", proc, Nothing, Nothing), URGENT, 0)

(***************************************************************************)
(* random and uuid                                                         *)
(***************************************************************************)
\* the values random.random() can return, in percent
DrawValues == {0, 50}
Draws == [1..2 -> DrawValues]

\* random.seed(seed): the generator restarts the sequence the seed determines
seed(r) == [r EXCEPT !.seeded = TRUE, !.pos = 0]

\* random.random(): the k-th value drawn in this step. A seeded generator repeats
\* the values its seed determined; draws supplies the values not yet known.
random(w, draws, k) ==
    IF w.rng.seeded /\ w.rng.pos < Len(w.rng.tape) THEN w.rng.tape[w.rng.pos + 1]
    ELSE draws[k]

\* the generator after that draw
drawn(w, draws, k) ==
    [w EXCEPT !.rng.pos = @ + 1,
              !.rng.tape = IF w.rng.seeded /\ w.rng.pos >= Len(@) THEN Append(@, draws[k])
                           ELSE @]

\* random.expovariate(1 / mean) from the draw u: -ln(1 - u) * mean
expovariate(u, mean) == IF u = 0 THEN 0 ELSE (69 * mean) \div 100

\* (mutant) every Product(...) call returns the same object
SameObject(w) == 0

\* the identity of the object a Product(...) call constructs: a new object each time
NewObject(w) == w.made

\* Product(...): a new object; uid is str(uuid.uuid4())[:8], read from OS entropy
Product(w, type, created_at, parent_machine, is_defective, genealogy) ==
    [oid |-> NewObject(w), uid |-> <<w.rng.entropy, w.made>>, type |-> type,
     created_at |-> created_at, parent_machine |-> parent_machine,
     is_defective |-> is_defective, genealogy |-> genealogy]

(***************************************************************************)
(* Routing tables (simulation/layout.py)                                   *)
(***************************************************************************)
\* the conditions the model writes on edges
RouteConditions ==
    {None, "product.is_defective", "not product.is_defective", "not product.is_flagged"}

\* RoutingRule
RoutingRule(target, condition, store) ==
    [target |-> target, condition |-> condition, store |-> store]

\* RoutingRule.matches with _get_attr: "not " is cut off the front, then "product.",
\* and an attribute the product does not have reads as False
matches(rule, product) ==
    LET negated == rule.condition \in {"not product.is_defective", "not product.is_flagged"}
        attr_path == IF rule.condition \in {"product.is_defective", "not product.is_defective"}
                     THEN "is_defective" ELSE "is_flagged"
        get_attr == IF attr_path = "is_defective" THEN product.is_defective ELSE FALSE
    IN IF rule.condition = None THEN TRUE
       ELSE IF negated THEN ~get_attr
       ELSE get_attr

\* NodeConnections with the default that step 3 of LayoutBuilder.build sets: the
\* store of the first route without a condition
NodeConnections(downstream_routes) ==
    LET unconditioned == {i \in 1..Len(downstream_routes) :
                              downstream_routes[i].condition = None}
    IN [downstream_routes |-> downstream_routes,
        default_downstream |->
            IF unconditioned = {} THEN Nothing
            ELSE Some(downstream_routes[CHOOSE i \in unconditioned :
                                            \A j \in unconditioned : i <= j].store)]

\* NodeConnections.get_route: the store it returns and the error it raises
get_route(conn, product) ==
    LET matching == {i \in 1..Len(conn.downstream_routes) :
                         matches(conn.downstream_routes[i], product)}
    IN IF matching # {}
       THEN [store |-> Some(conn.downstream_routes[CHOOSE i \in matching :
                                                       \A j \in matching : i <= j].store),
             error |-> None]
       ELSE IF IsSome(conn.default_downstream)
       THEN [store |-> conn.default_downstream, error |-> None]
       ELSE IF conn.downstream_routes # <<>>
       THEN [store |-> Some(conn.downstream_routes[1].store), error |-> None]
       ELSE [store |-> Nothing, error |-> "ValueError"]

(***************************************************************************)
(* Equipment and the phases of its cycle                                   *)
(***************************************************************************)
\* MachineConfig, with the grouped parameters flattened; times in ticks,
\* probabilities in percent, mtbf and mttr already multiplied by 60
MachineConfig(name, batch_in, output_type, buffer_capacity, cycle_time_sec) ==
    [name |-> name, batch_in |-> batch_in, output_type |-> output_type,
     buffer_capacity |-> buffer_capacity, cycle_time_sec |-> cycle_time_sec,
     mtbf_sec |-> Nothing, mttr_sec |-> 3, jam_prob |-> 0, jam_time_sec |-> 1,
     defect_rate |-> 0, detection_prob |-> 0]

\* PhaseContext as Equipment.run creates it for a cycle
PhaseContext ==
    [collected_inputs |-> <<>>, transformed_output |-> Nothing,
     new_defect_created |-> FALSE, routed_to_reject |-> FALSE]

\* Equipment.__init__ (the process is started by the caller with process); neither
\* _build_layout nor LayoutBuilder.build passes connections, which stays None
Equipment(cfg, upstream, downstream, reject_store, event_aggregator, debug_events) ==
    [cfg |-> cfg, upstream |-> upstream, downstream |-> downstream,
     reject_store |-> reject_store, connections |-> Nothing,
     event_aggregator |-> event_aggregator, debug_events |-> debug_events,
     items_produced |-> 0, state |-> "IDLE", state_start_time |-> 0,
     tubes_produced |-> 0, cases_produced |-> 0, pallets_produced |-> 0,
     defects_created |-> 0, defects_detected |-> 0, defects_escaped |-> 0,
     time_in_state |-> [s \in {"STARVED", "EXECUTE", "DOWN", "JAMMED", "BLOCKED"} |-> 0],
     event_log |-> <<>>,
     \* the process: the phase it is suspended in, and Collect's local list
     pc |-> "Initialize", collected |-> <<>>, context |-> PhaseContext]

\* (mutant) log that leaves state_start_time as it was
logUnstamped(w, m, new_state) ==
    LET e == w.machines[m]
        time_spent == w.env.now - e.state_start_time
        prev_state == e.state
        entry(state, event_type) ==
            [timestamp |-> w.env.now, machine |-> e.cfg.name, state |-> state,
             event_type |-> event_type]
    IN IF e.state = new_state THEN w
       ELSE [w EXCEPT
               !.machines[m].time_in_state =
                   IF prev_state \in DOMAIN @ THEN [@ EXCEPT ![prev_state] = @ + time_spent]
                   ELSE @,
               !.agg = IF e.event_aggregator
                       THEN on_state_change(@, e.cfg.name, new_state, w.env.now, prev_state,
                                            Some(time_spent))
                       ELSE @,
               !.machines[m].event_log =
                   IF e.debug_events
                   THEN @ \o <<entry(prev_state, "end"), entry(new_state, "start")>>
                   ELSE @,
               !.machines[m].state = new_state]

\* (mutant) log without the test that the state differs
logUnguarded(w, m, new_state) ==
    LET e == w.machines[m]
        time_spent == w.env.now - e.state_start_time
        prev_state == e.state
        entry(state, event_type) ==
            [timestamp |-> w.env.now, machine |-> e.cfg.name, state |-> state,
             event_type |-> event_type]
    IN [w EXCEPT
          !.machines[m].time_in_state =
              IF prev_state \in DOMAIN @ THEN [@ EXCEPT ![prev_state] = @ + time_spent]
              ELSE @,
          !.agg = IF e.event_aggregator
                  THEN on_state_change(@, e.cfg.name, new_state, w.env.now, prev_state,
                                       Some(time_spent))
                  ELSE @,
          !.machines[m].event_log =
              IF e.debug_events
              THEN @ \o <<entry(prev_state, "end"), entry(new_state, "start")>>
              ELSE @,
          !.machines[m].state = new_state,
          !.machines[m].state_start_time = w.env.now]

\* Equipment.log
log(w, m, new_state) ==
    LET e == w.machines[m]
        time_spent == w.env.now - e.state_start_time
        prev_state == e.state
        entry(state, event_type) ==
            [timestamp |-> w.env.now, machine |-> e.cfg.name, state |-> state,
             event_type |-> event_type]
    IN IF e.state = new_state THEN w
       ELSE [w EXCEPT
               !.machines[m].time_in_state =
                   IF prev_state \in DOMAIN @ THEN [@ EXCEPT ![prev_state] = @ + time_spent]
                   ELSE @,
               !.agg = IF e.event_aggregator
                       THEN on_state_change(@, e.cfg.name, new_state, w.env.now, prev_state,
                                            Some(time_spent))
                       ELSE @,
               !.machines[m].event_log =
                   IF e.debug_events
                   THEN @ \o <<entry(prev_state, "end"), entry(new_state, "start")>>
                   ELSE @,
               !.machines[m].state = new_state,
               !.machines[m].state_start_time = w.env.now]

\* p_fail = 1 - exp(-cycle_time_sec / mtbf_sec), in percent rounded down to a step
\* of the table; at least 1, since it is positive and the draw can be 0.0
p_fail(cfg) ==
    LET x == (100 * cfg.cycle_time_sec) \div Val(cfg.mtbf_sec)
    IN IF x >= 230 THEN 90 ELSE IF x >= 70 THEN 50 ELSE IF x >= 36 THEN 30 ELSE 1

\* (mutant) Execute waits for the cycle time without logging its state
ExecutePhaseUnlogged(w, m) ==
    timeout([w EXCEPT !.machines[m].pc = "execute"], m, w.machines[m].cfg.cycle_time_sec)

\* ExecutePhase.execute up to its yield
ExecutePhase(w, m) ==
    timeout([log(w, m, "EXECUTE") EXCEPT !.machines[m].pc = "execute"], m,
            w.machines[m].cfg.cycle_time_sec)

\* (mutant) Microstop runs whatever the configuration
MicrostopEnabledAlways(cfg) == TRUE

\* MicrostopPhase.is_enabled
MicrostopEnabled(cfg) == cfg.jam_prob > 0

\* MicrostopPhase.execute up to its yield, then the phases after it; its draw is
\* the k-th of the step
MicrostopPhase(w, m, draws, k) ==
    LET cfg == w.machines[m].cfg
    IN IF ~MicrostopEnabled(cfg) THEN ExecutePhase(w, m)
       ELSE IF random(w, draws, k) < cfg.jam_prob
            THEN timeout([log(drawn(w, draws, k), m, "JAMMED")
                             EXCEPT !.machines[m].pc = "microstop"], m, cfg.jam_time_sec)
            ELSE ExecutePhase(drawn(w, draws, k), m)

\* BreakdownPhase.is_enabled
BreakdownEnabled(cfg) == IsSome(cfg.mtbf_sec)

\* BreakdownPhase.execute up to its yield, then the phases after it; with mtbf_min = 0
\* the division in p_fail raises ZeroDivisionError and the process ends with it
BreakdownPhase(w, m, draws) ==
    LET cfg == w.machines[m].cfg
    IN IF ~BreakdownEnabled(cfg) THEN MicrostopPhase(w, m, draws, 1)
       ELSE IF Val(cfg.mtbf_sec) = 0 THEN [w EXCEPT !.machines[m].pc = "ZeroDivisionError"]
       ELSE IF random(w, draws, 1) < p_fail(cfg)
            THEN LET w1 == log(drawn(w, draws, 1), m, "DOWN")
                     repair_time == expovariate(random(w1, draws, 2), cfg.mttr_sec)
                 IN timeout([drawn(w1, draws, 2) EXCEPT !.machines[m].pc = "breakdown"], m,
                            repair_time)
            ELSE MicrostopPhase(drawn(w, draws, 1), m, draws, 2)

\* (mutant) Collect stops after one item
CollectOne(e) == Len(e.collected) < 1

\* the loop of CollectPhase.execute, for _ in range(config.batch_in), has a get left
CollectMore(e) == Len(e.collected) < e.cfg.batch_in

\* CollectPhase.execute: the next get of its loop, or the phases after Collect
CollectPhase(w, m, draws) ==
    LET e == w.machines[m]
    IN IF CollectMore(e)
       THEN get([w EXCEPT !.machines[m].pc = "collect"], e.upstream, m)
       ELSE BreakdownPhase([w EXCEPT !.machines[m].context.collected_inputs = e.collected],
                           m, draws)

\* the top of Equipment.run's loop: a new context, then the orchestrated cycle
StartCycle(w, m, draws) ==
    CollectPhase([w EXCEPT !.machines[m].context = PhaseContext,
                           !.machines[m].collected = <<>>], m, draws)

\* (mutant) the output is defective only when a new defect is drawn
TransformPhaseUninherited(w, m, draws) ==
    LET e == w.machines[m]
        actual_inputs == e.context.collected_inputs
        new_defect == random(w, draws, 1) < e.cfg.defect_rate
        genealogy == [i \in 1..Len(actual_inputs) |-> actual_inputs[i].uid]
        w1 == drawn(w, draws, 1)
    IN IF e.cfg.output_type = "None"
       THEN [w1 EXCEPT !.machines[m].context.transformed_output = Some(actual_inputs[1]),
                       !.machines[m].context.new_defect_created = FALSE]
       ELSE [w1 EXCEPT !.machines[m].context.transformed_output =
                           Some(Product(w, e.cfg.output_type, w.env.now, e.cfg.name,
                                        new_defect, genealogy)),
                       !.machines[m].context.new_defect_created = new_defect,
                       !.made = @ + 1]

\* TransformPhase.execute: the context after it (it never yields)
TransformPhase(w, m, draws) ==
    LET e == w.machines[m]
        actual_inputs == e.context.collected_inputs
        has_inherited_defect == \E i \in 1..Len(actual_inputs) : actual_inputs[i].is_defective
        new_defect == random(w, draws, 1) < e.cfg.defect_rate
        is_bad == has_inherited_defect \/ new_defect
        genealogy == [i \in 1..Len(actual_inputs) |-> actual_inputs[i].uid]
        w1 == drawn(w, draws, 1)
    IN IF e.cfg.output_type = "None"
       THEN [w1 EXCEPT !.machines[m].context.transformed_output = Some(actual_inputs[1]),
                       !.machines[m].context.new_defect_created = FALSE]
       ELSE [w1 EXCEPT !.machines[m].context.transformed_output =
                           Some(Product(w, e.cfg.output_type, w.env.now, e.cfg.name, is_bad,
                                        genealogy)),
                       !.machines[m].context.new_defect_created = new_defect,
                       !.made = @ + 1]

\* (mutant) a station that has a reject store puts every output into it
DestinationReject(e, routed_to_reject) ==
    IF e.reject_store # Nothing THEN e.reject_store ELSE e.downstream

\* InspectPhase.execute's choice of store under legacy routing
Destination(e, routed_to_reject) ==
    IF routed_to_reject /\ e.reject_store # Nothing THEN e.reject_store ELSE e.downstream

\* (mutant) Inspect puts its output without logging BLOCKED
InspectPhaseUnlogged(w, m, draws) ==
    LET e == w.machines[m]
        output_item == Val(e.context.transformed_output)
        inspected == e.cfg.detection_prob > 0 /\ output_item.is_defective
        routed_to_reject == inspected /\ random(w, draws, 2) < e.cfg.detection_prob
        w1 == IF inspected THEN drawn(w, draws, 2) ELSE w
        w2 == [w1 EXCEPT !.machines[m].context.routed_to_reject = routed_to_reject]
    IN put([w2 EXCEPT !.machines[m].pc = "inspect"], Destination(e, routed_to_reject), m,
           output_item)

\* InspectPhase.execute up to its yield; its draw is the second of the step
InspectPhase(w, m, draws) ==
    LET e == w.machines[m]
        output_item == Val(e.context.transformed_output)
        inspected == e.cfg.detection_prob > 0 /\ output_item.is_defective
        routed_to_reject == inspected /\ random(w, draws, 2) < e.cfg.detection_prob
        w1 == IF inspected THEN drawn(w, draws, 2) ELSE w
        w2 == log([w1 EXCEPT !.machines[m].context.routed_to_reject = routed_to_reject], m,
                  "BLOCKED")
        use_graph_routing == IsSome(e.connections)
                             /\ Len(Val(e.connections).downstream_routes) > 1
        destination == IF use_graph_routing
                       THEN Val(get_route(Val(e.connections), output_item).store)
                       ELSE Destination(e, routed_to_reject)
    IN put([w2 EXCEPT !.machines[m].pc = "inspect"], destination, m, output_item)

\* Equipment.run after the cycle's generator is exhausted: the counters, then STARVED
UpdateCounters(w, m) ==
    LET e == w.machines[m]
        output_item == Val(e.context.transformed_output)
        counted(type) == IF output_item.type = type THEN 1 ELSE 0
        judged == e.cfg.detection_prob > 0 /\ output_item.is_defective
    IN log([w EXCEPT
              !.machines[m].items_produced = @ + 1,
              !.machines[m].tubes_produced = @ + counted("Tube"),
              !.machines[m].cases_produced = @ + counted("Case"),
              !.machines[m].pallets_produced = @ + counted("Pallet"),
              !.machines[m].defects_created =
                  IF e.context.new_defect_created THEN @ + 1 ELSE @,
              !.machines[m].defects_detected =
                  IF judged /\ e.context.routed_to_reject THEN @ + 1 ELSE @,
              !.machines[m].defects_escaped =
                  IF judged /\ ~e.context.routed_to_reject THEN @ + 1 ELSE @],
           m, "STARVED")

(***************************************************************************)
(* Building a layout                                                       *)
(***************************************************************************)
Bind(f, k, v) == [x \in (DOMAIN f) \cup {k} |-> IF x = k THEN v ELSE f[x]]

\* SourceConfig; the defaults are those of loader.SourceConfig
SourceConfig(initial_inventory) ==
    [initial_inventory |-> initial_inventory, material_type |-> "None",
     parent_machine |-> "Raw"]

\* the pre-fill loop: range(initial_inventory) puts of a new raw Product
RECURSIVE Prefill(_, _, _, _)
Prefill(w, s, source_config, n) ==
    IF n = 0 THEN w
    ELSE LET item == Product(w, source_config.material_type, 0, source_config.parent_machine,
                             FALSE, <<>>)
         IN Prefill(put([w EXCEPT !.made = @ + 1], s, None, item), s, source_config, n - 1)

\* a world with a fresh environment and the stores, machines and logs empty
NewWorld(r, a) ==
    [env |-> NewEnvironment, stores |-> <<>>, machines |-> <<>>, order |-> <<>>, rng |-> r,
     made |-> 0, get_log |-> <<>>, put_log |-> <<>>, agg |-> a]

\* Equipment(...) constructed under the given name, and its process started
AddMachine(w, e) ==
    process([w EXCEPT !.machines = Bind(@, e.cfg.name, e),
                      !.order = Append(@, e.cfg.name)], e.cfg.name)

\* (mutant) every buffer of the line is unbounded
BufferCapacityInfinite(configs, i) == Nothing

\* the capacity of the buffer after the i-th machine: the last machine's is infinite
BufferCapacity(configs, i) ==
    IF i = Len(configs) THEN Nothing ELSE Some(configs[i].buffer_capacity)

\* the loop of SimulationEngine._build_layout over the configs
RECURSIVE BuildLine(_, _, _, _)
BuildLine(w, configs, i, current_upstream) ==
    IF i > Len(configs) THEN w
    ELSE LET m_conf == configs[i]
             buffer_name == <<"Buf", m_conf.name>>
             cap == BufferCapacity(configs, i)
             w1 == [w EXCEPT !.stores = Bind(@, buffer_name, Store(cap))]
             machine == Equipment(m_conf, current_upstream, buffer_name,
                                  IF m_conf.detection_prob > 0 THEN <<"reject_bin">>
                                  ELSE Nothing,
                                  FALSE, FALSE)
         IN BuildLine(AddMachine(w1, machine), configs, i + 1, buffer_name)

\* SimulationEngine._build_layout
build_layout(w, configs, source_config) ==
    LET w1 == [w EXCEPT !.stores = Bind(@, <<"source">>, Store(Nothing))]
        w2 == Prefill(w1, <<"source">>, source_config, source_config.initial_inventory)
        w3 == [w2 EXCEPT !.stores = Bind(@, <<"reject_bin">>, Store(Nothing))]
    IN BuildLine(w3, configs, 1, <<"source">>)

\* the store an edge stands for at one of its ends: a special node's own store,
\* else the edge's buffer
EdgeStore(edge, end) ==
    IF end \in SPECIAL_NODES THEN <<end>> ELSE <<"Buf", edge.source, edge.target>>

\* step 3 of LayoutBuilder.build: the NodeConnections of a node, a rule per outgoing
\* edge in edge order
Connections(g, name) ==
    NodeConnections([i \in 1..Len(g.outgoing[name]) |->
                        RoutingRule(g.outgoing[name][i].target, g.outgoing[name][i].condition,
                                    EdgeStore(g.outgoing[name][i], g.outgoing[name][i].target))])

\* step 2 of LayoutBuilder.build: one store per edge, under the edge's buffer_name
RECURSIVE BuildBuffers(_, _, _, _)
BuildBuffers(w, g, machine_configs, i) ==
    IF i > Len(g.edges) THEN w
    ELSE LET edge == g.edges[i]
             capacity ==
                 IF IsSome(edge.capacity_override) THEN edge.capacity_override
                 ELSE IF edge.target \notin SPECIAL_NODES
                         /\ edge.target \in DOMAIN machine_configs
                      THEN Some(machine_configs[edge.target].buffer_capacity)
                      ELSE Nothing
         IN BuildBuffers([w EXCEPT !.stores =
                              Bind(@, <<"Buf", edge.source, edge.target>>, Store(capacity))],
                         g, machine_configs, i + 1)

\* step 4 of LayoutBuilder.build: an Equipment per ordinary node, in the order
\* topological_order yields them
RECURSIVE BuildMachines(_, _, _, _, _, _)
BuildMachines(w, g, machine_configs, names, event_aggregator, debug_events) ==
    IF names = <<>> THEN w
    ELSE LET name == Head(names)
             config == machine_configs[name]
             primary_upstream ==
                 IF g.incoming[name] # <<>>
                 THEN EdgeStore(g.incoming[name][1], g.incoming[name][1].source)
                 ELSE <<"_source">>
             primary_downstream ==
                 IF g.outgoing[name] # <<>>
                 THEN EdgeStore(g.outgoing[name][1], g.outgoing[name][1].target)
                 ELSE <<"_sink">>
             machine == Equipment(config, primary_upstream, primary_downstream,
                                  IF config.detection_prob > 0 THEN <<"_reject">>
                                  ELSE Nothing,
                                  event_aggregator, debug_events)
         IN BuildMachines(IF is_special(name) THEN w ELSE AddMachine(w, machine), g,
                          machine_configs, Tail(names), event_aggregator, debug_events)

\* steps 1 and 2 of LayoutBuilder.build: the special stores, the source pre-filled,
\* and the buffers
BuildStores(w, g, machine_configs, source_config) ==
    LET w1 == [w EXCEPT !.stores = Bind(@, <<"_source">>, Store(Nothing))]
        w2 == Prefill(w1, <<"_source">>, source_config, source_config.initial_inventory)
        w3 == [w2 EXCEPT !.stores = Bind(Bind(@, <<"_sink">>, Store(Nothing)),
                                         <<"_reject">>, Store(Nothing))]
    IN BuildBuffers(w3, g, machine_configs, 1)

\* LayoutBuilder.build on a graph that topological_order accepts, every ordinary
\* node of which has a MachineConfig
build(w, g, machine_configs, source_config, event_aggregator, debug_events) ==
    BuildMachines(BuildStores(w, g, machine_configs, source_config), g, machine_configs,
                  topological_order(g).emitted, event_aggregator, debug_events)

\* LayoutBuilder.build on any graph: the world it leaves and the error it raises.
\* The loop of step 4 raises ValueError at the first ordinary node without a
\* MachineConfig, and the exhausted topological_order raises its own error; the
\* machines made before the error have been started
build_any(w, g, machine_configs, source_config, event_aggregator, debug_events) ==
    LET sorted == topological_order(g)
        names == sorted.emitted
        unconfigured == {i \in 1..Len(names) :
                            ~is_special(names[i]) /\ names[i] \notin DOMAIN machine_configs}
        made_ == IF unconfigured = {} THEN names
                 ELSE SubSeq(names, 1, (CHOOSE i \in unconfigured :
                                           \A j \in unconfigured : i <= j) - 1)
    IN [world |-> BuildMachines(BuildStores(w, g, machine_configs, source_config), g,
                                machine_configs, made_, event_aggregator, debug_events),
        error |-> IF unconfigured # {} THEN "ValueError" ELSE sorted.error]

(***************************************************************************)
(* Runs of the line                                                        *)
(***************************************************************************)
\* the duration of a run: env.run(until = duration_sec) never processes an event
\* at or after duration_sec
MaxTime == 6

\* a filling line with quality loss: defects made by the Filler, found by a
\* pass-through Inspector, tubes packed two to a case
QualityLine ==
    <<[MachineConfig("Filler", 1, "Tube", 1, 1) EXCEPT !.defect_rate = 50],
      [MachineConfig("Inspector", 1, "None", 1, 1) EXCEPT !.detection_prob = 50],
      MachineConfig("Packer", 2, "Case", 1, 1)>>

\* a line with availability and performance loss
ReliabilityLine ==
    <<[MachineConfig("Filler", 1, "Tube", 1, 1) EXCEPT !.mtbf_sec = Some(1), !.jam_prob = 50],
      [MachineConfig("Packer", 2, "Case", 1, 2) EXCEPT !.jam_prob = 100, !.jam_time_sec = 1]>>

\* two fillers on the shared source, both feeding one packer
MergeConfigs ==
    LET f == [n \in {"A", "B"} |-> MachineConfig(n, 1, "Tube", 1, 1)]
    IN Bind(f, "C", MachineConfig("C", 2, "Case", 1, 1))

RECURSIVE AddEdges(_, _)
AddEdges(g, pairs) ==
    IF pairs = <<>> THEN g
    ELSE AddEdges(add_edge(g, BufferEdge(pairs[1][1], pairs[1][2], None)).g, Tail(pairs))

MergeGraph ==
    AddEdges(add_node(add_node(add_node(EmptyGraph, "A"), "B"), "C"),
             <<<<"_source", "A">>, <<"_source", "B">>, <<"A", "C">>, <<"B", "C">>,
               <<"C", "_sink">>>>)

\* the layouts the model runs: the two linear lines as the engine builds them,
\* and the merge graph as LayoutBuilder builds it with an aggregator attached
Layouts ==
    {[graph |-> EmptyGraph,
      world |-> build_layout(NewWorld(NewRandom, NewAggregator(1, 0)), configs, SourceConfig(n))] :
        configs \in {QualityLine, ReliabilityLine}, n \in {3, 4}}
    \cup
    {[graph |-> MergeGraph,
      world |-> build(NewWorld(NewRandom, NewAggregator(2, 0)), MergeGraph, MergeConfigs,
                      SourceConfig(3), TRUE, TRUE)]}

IsWorld(w) ==
    /\ env = w.env
    /\ stores = w.stores
    /\ machines = w.machines
    /\ order = w.order
    /\ rng = w.rng
    /\ made = w.made
    /\ get_log = w.get_log
    /\ put_log = w.put_log
    /\ IsAggregator(w.agg)

Init ==
    \E layout \in Layouts :
        /\ nodes = layout.graph.nodes
        /\ edges = layout.graph.edges
        /\ outgoing = layout.graph.outgoing
        /\ incoming = layout.graph.incoming
        /\ IsWorld(layout.world)
        /\ run = [RunConfig(Nothing, Nothing, MaxTime) EXCEPT !.started = Some(0)]
        /\ results = <<>>
        /\ ret = NoCall

\* Environment.step pops the first event of the queue and moves the clock to it
NextEvent == env.queue[1]
Pop(w) == [w EXCEPT !.env.now = NextEvent.time, !.env.queue = Tail(@)]

\* the next event is of this kind, belongs to proc, and lies before the horizon
Ready(kind, proc, pc) ==
    /\ env.queue # <<>>
    /\ NextEvent.time < run.duration_sec
    /\ NextEvent.event.kind = kind
    /\ NextEvent.event.proc = proc
    /\ proc # None => machines[proc].pc = pc

\* what every step leaves behind it
Stepped(w) ==
    /\ SetWorld(w)
    /\ ret' = [op |-> "step", time |-> NextEvent.time, priority |-> NextEvent.priority,
               eid |-> NextEvent.eid, event |-> NextEvent.event]
    /\ UNCHANGED <<topoVars, run, results>>

\* the process starts: Equipment.run up to its first yield
Initialize(m, draws) ==
    /\ Ready("Initialize", m, "Initialize")
    /\ Stepped(StartCycle(log(Pop(World), m, "STARVED"), m, draws))

\* a get succeeded: the store admits a waiting put, and Collect resumes with the item
CollectResumed(m, draws) ==
    /\ Ready("StoreGet", m, "collect")
    /\ LET w1 == trigger_put(Pop(World), NextEvent.event.store)
           w2 == [w1 EXCEPT !.machines[m].collected = Append(@, Val(NextEvent.event.value))]
       IN Stepped(CollectPhase(w2, m, draws))

\* the repair timeout fired: Breakdown returns, Microstop and Execute follow
RepairDone(m, draws) ==
    /\ Ready("Timeout", m, "breakdown")
    /\ Stepped(MicrostopPhase(Pop(World), m, draws, 1))

\* the jam timeout fired: Microstop returns, Execute follows
JamCleared(m) ==
    /\ Ready("Timeout", m, "microstop")
    /\ Stepped(ExecutePhase(Pop(World), m))

\* the cycle-time timeout fired: Execute returns, Transform and Inspect follow
ExecuteDone(m, draws) ==
    /\ Ready("Timeout", m, "execute")
    /\ Stepped(InspectPhase(TransformPhase(Pop(World), m, draws), m, draws))

\* a put succeeded: the store serves a waiting get, Inspect returns, the cycle
\* ends and the next one starts
PutDone(m, draws) ==
    /\ Ready("StorePut", m, "inspect")
    /\ LET w1 == trigger_get(Pop(World), NextEvent.event.store)
       IN Stepped(StartCycle(UpdateCounters(w1, m), m, draws))

\* a put of the pre-fill succeeded: the store serves a waiting get
PrefillDone ==
    /\ Ready("StorePut", None, None)
    /\ Stepped(trigger_get(Pop(World), NextEvent.event.store))

Next ==
    \/ \E m \in DOMAIN machines, draws \in Draws : Initialize(m, draws)
    \/ \E m \in DOMAIN machines, draws \in Draws : CollectResumed(m, draws)
    \/ \E m \in DOMAIN machines, draws \in Draws : RepairDone(m, draws)
    \/ \E m \in DOMAIN machines : JamCleared(m)
    \/ \E m \in DOMAIN machines, draws \in Draws : ExecuteDone(m, draws)
    \/ \E m \in DOMAIN machines, draws \in Draws : PutDone(m, draws)
    \/ PrefillDone

Spec == Init /\ [][Next]_vars

(***************************************************************************)
(* run_resolved called again and again with one resolved configuration     *)
(***************************************************************************)
MaxRuns == 2
\* the duration of each of the repeated runs
MaxDurationSec == 3
\* the readings of the wall clock that datetime.now() can return
WallClock == {0, 1}

\* a single station with availability, performance and quality loss
LossyConfigs ==
    Bind(<<>>, "Filler",
         [MachineConfig("Filler", 1, "Tube", 1, 1) EXCEPT
             !.mtbf_sec = Some(1), !.mttr_sec = 3, !.jam_prob = 50, !.defect_rate = 50,
             !.detection_prob = 50])

LossyGraph ==
    AddEdges(add_node(EmptyGraph, "Filler"), <<<<"_source", "Filler">>, <<"Filler", "_sink">>>>)

\* (mutant) the generator is left as it is whatever the configured seed
SeedRunNever(r, random_seed) == r

\* step 1 of run_resolved: random.seed(run.random_seed) unless the seed is None
SeedRun(r, random_seed) == IF IsSome(random_seed) THEN seed(r) ELSE r

\* step 2 of run_resolved: run.start_time or datetime.now()
StartTime(start_time, now) == IF IsSome(start_time) THEN start_time ELSE Some(now)

\* _compile_results: the event logs of the machines one after another, each row
\* with the datetime column start_time + timestamp
RECURSIVE compile_results(_, _, _)
compile_results(table, names, start_time) ==
    IF names = <<>> THEN <<>>
    ELSE LET event_log == table[Head(names)].event_log
         IN [i \in 1..Len(event_log) |->
                [datetime |-> start_time + event_log[i].timestamp,
                 timestamp |-> event_log[i].timestamp, machine |-> event_log[i].machine,
                 state |-> event_log[i].state, event_type |-> event_log[i].event_type]]
            \o compile_results(table, Tail(names), start_time)

\* the counters of a machine that the telemetry reports
Counters(e) ==
    [items_produced |-> e.items_produced, tubes_produced |-> e.tubes_produced,
     cases_produced |-> e.cases_produced, pallets_produced |-> e.pallets_produced,
     defects_created |-> e.defects_created, defects_detected |-> e.defects_detected,
     defects_escaped |-> e.defects_escaped, time_in_state |-> e.time_in_state]

InitDet ==
    /\ nodes = LossyGraph.nodes
    /\ edges = LossyGraph.edges
    /\ outgoing = LossyGraph.outgoing
    /\ incoming = LossyGraph.incoming
    /\ NoAggregator
    /\ NoWorld
    /\ \E start_time \in {Nothing, Some(0)} : run = RunConfig(Some(42), start_time, MaxDurationSec)
    /\ results = <<>>
    /\ ret = NoCall

\* run_resolved is called: steps 1 to 7, up to env.run. The aggregator is made
\* for the run with its start time and handed to every machine, with debug events
RunResolved(now) ==
    /\ machines = <<>>
    /\ Len(results) < MaxRuns
    /\ LET start_time == StartTime(run.start_time, now)
           a == NewAggregator(2, Val(start_time))
           w == [NewWorld(SeedRun(rng, run.random_seed), a) EXCEPT !.made = made]
       IN /\ SetWorld(build(w, Graph, LossyConfigs, SourceConfig(3), TRUE, TRUE))
          /\ run' = [run EXCEPT !.started = start_time]
    /\ ret' = [op |-> "run_resolved", now |-> now]
    /\ UNCHANGED <<topoVars, results>>

\* env.run(until = duration_sec) is over: the aggregator is finalized, the results are
\* compiled and returned, and the layout is dropped
Return ==
    /\ machines # <<>>
    /\ IF env.queue = <<>> THEN TRUE ELSE NextEvent.time >= run.duration_sec
    /\ LET a == finalize(Aggregator, run.duration_sec)
           result == [df_ev |-> compile_results(machines, order, Val(run.started)),
                      df_summary |-> get_summary_df(a),
                      counters |-> [m \in DOMAIN machines |-> Counters(machines[m])]]
       IN /\ results' = Append(results, result)
          /\ SetWorld([NewWorld(rng, a) EXCEPT !.made = made])
          /\ ret' = [op |-> "return", result |-> result]
    /\ UNCHANGED <<topoVars, run>>

NextDet ==
    \/ \E now \in WallClock : RunResolved(now)
    \/ Next
    \/ Return

SpecDet == InitDet /\ [][NextDet]_vars

\* the end of run_resolved as in Return, seen by a caller that also looks at the
\* Products the run has left in the stores of its layout before it is dropped
ReturnItems ==
    /\ machines # <<>>
    /\ IF env.queue = <<>> THEN TRUE ELSE NextEvent.time >= run.duration_sec
    /\ LET a == finalize(Aggregator, run.duration_sec)
           result == [df_ev |-> compile_results(machines, order, Val(run.started)),
                      df_summary |-> get_summary_df(a),
                      counters |-> [m \in DOMAIN machines |-> Counters(machines[m])],
                      items |-> [s \in DOMAIN stores |-> stores[s].items]]
       IN /\ results' = Append(results, result)
          /\ SetWorld([NewWorld(rng, a) EXCEPT !.made = made])
          /\ ret' = [op |-> "return", result |-> result]
    /\ UNCHANGED <<topoVars, run>>

NextItems ==
    \/ \E now \in WallClock : RunResolved(now)
    \/ Next
    \/ ReturnItems

SpecItems == InitDet /\ [][NextItems]_vars

(***************************************************************************)
(* A run of a line with a branch, as LayoutBuilder builds it               *)
(***************************************************************************)
\* the lossy station sends good output to the sink and defective output to the
\* reject bin, by the conditions on its two outgoing edges
BranchGraph ==
    LET g1 == add_edge(add_node(EmptyGraph, "Filler"), BufferEdge("_source", "Filler", None)).g
        g2 == add_edge(g1, BufferEdge("Filler", "_sink", "not product.is_defective")).g
    IN add_edge(g2, BufferEdge("Filler", "_reject", "product.is_defective")).g

InitBranch ==
    /\ nodes = BranchGraph.nodes
    /\ edges = BranchGraph.edges
    /\ outgoing = BranchGraph.outgoing
    /\ incoming = BranchGraph.incoming
    /\ IsWorld(build(NewWorld(NewRandom, NewAggregator(2, 0)), BranchGraph, LossyConfigs,
                     SourceConfig(3), TRUE, TRUE))
    /\ run = [RunConfig(Nothing, Nothing, MaxDurationSec) EXCEPT !.started = Some(0)]
    /\ results = <<>>
    /\ ret = NoCall

SpecBranch == InitBranch /\ [][Next]_vars

(***************************************************************************)
(* A run of a two-station line that reports to the aggregator               *)
(***************************************************************************)
\* the line with availability and performance loss as a graph, so that
\* LayoutBuilder builds it and hands the aggregator to its stations
ReportingGraph ==
    AddEdges(add_node(add_node(EmptyGraph, "Filler"), "Packer"),
             <<<<"_source", "Filler">>, <<"Filler", "Packer">>, <<"Packer", "_sink">>>>)

ReportingConfigs ==
    Bind(Bind(<<>>, "Filler", ReliabilityLine[1]), "Packer", ReliabilityLine[2])

InitReporting ==
    /\ nodes = ReportingGraph.nodes
    /\ edges = ReportingGraph.edges
    /\ outgoing = ReportingGraph.outgoing
    /\ incoming = ReportingGraph.incoming
    /\ IsWorld(build(NewWorld(NewRandom, NewAggregator(2, 0)), ReportingGraph,
                     ReportingConfigs, SourceConfig(4), TRUE, TRUE))
    /\ run = [RunConfig(Nothing, Nothing, MaxTime) EXCEPT !.started = Some(0)]
    /\ results = <<>>
    /\ ret = NoCall

SpecReporting == InitReporting /\ [][Next]_vars

(***************************************************************************)
(* validate and LayoutBuilder.build called on the graphs that add_node and  *)
(* add_edge build                                                          *)
(***************************************************************************)
\* the edges the model adds between the two stations, the source and the sink
EdgeChoices ==
    {BufferEdge(source, target, condition) :
        source \in OrdinaryNames \cup {"_source"}, target \in OrdinaryNames \cup {"_sink"},
        condition \in {None, "product.is_defective"}}
    \ {BufferEdge(n, n, condition) : n \in OrdinaryNames, condition \in {None, "product.is_defective"}}

\* add_node for every station, then add_edge for the first i edges of the list
RECURSIVE Built(_, _)
Built(list, i) ==
    IF i = 0 THEN add_node(add_node(EmptyGraph, "A"), "B")
    ELSE add_edge(Built(list, i - 1), list[i]).g

InitValidate ==
    /\ \E n \in 0..MaxEdges : \E list \in [1..n -> EdgeChoices] :
           LET g == Built(list, n)
           IN /\ nodes = g.nodes
              /\ edges = g.edges
              /\ outgoing = g.outgoing
              /\ incoming = g.incoming
    /\ NoAggregator
    /\ NoSimulation
    /\ ret = NoCall

\* graph.validate(), called on the graph before a layout is built from it
Validate ==
    /\ stores = <<>>
    /\ ret' = [op |-> "validate", is_valid |-> is_valid(Graph)] @@ validate(Graph)
    /\ UNCHANGED <<topoVars, aggVars, simVars>>

\* the MachineConfigs handed to build: one for every station, or for A alone
ConfigChoices ==
    LET f == [n \in OrdinaryNames |-> MachineConfig(n, 1, "Tube", 1, 1)]
    IN {f, [n \in {"A"} |-> f[n]]}

\* LayoutBuilder(env, graph, machine_configs, source_config).build() on a fresh
\* environment; layout is the LayoutResult returned, if any
Build(machine_configs) ==
    /\ stores = <<>>
    /\ LET r == build_any(World, Graph, machine_configs, SourceConfig(1), FALSE, FALSE)
       IN /\ SetWorld(r.world)
          /\ ret' = [op |-> "build", machine_configs |-> machine_configs,
                     layout |-> r.error = None, error |-> r.error]
    /\ UNCHANGED <<topoVars, run, results>>

NextValidate ==
    \/ Validate
    \/ \E machine_configs \in ConfigChoices : Build(machine_configs)

SpecValidate == InitValidate /\ [][NextValidate]_vars

(***************************************************************************)
(* Direct calls of put and get on one Store by several processes           *)
(***************************************************************************)
Procs == {"P1", "P2", "P3"}
StoreCapacities == {1, 2}
\* the number of put calls, and of get calls
MaxPuts == 3
TheStore == <<"store">>

\* a process that waits for a put or a get of its own cannot make another call
Busy(proc) ==
    \/ proc \in SeqToSet(stores[TheStore].get_queue)
    \/ \E i \in 1..Len(stores[TheStore].put_queue) : stores[TheStore].put_queue[i].proc = proc
    \/ \E i \in 1..Len(env.queue) : env.queue[i].event.proc = proc

InitStore ==
    /\ EmptyTopo
    /\ \E capacity \in StoreCapacities :
           IsWorld([NewWorld(NewRandom, NewAggregator(1, 0)) EXCEPT
                       !.stores = Bind(<<>>, TheStore, Store(Some(capacity)))])
    /\ run = RunConfig(Nothing, Nothing, 0)
    /\ results = <<>>
    /\ ret = NoCall

\* proc calls store.put(Product(...)) and yields the request
PutCall(proc) ==
    /\ ~Busy(proc)
    /\ made < MaxPuts
    /\ SetWorld(put([World EXCEPT !.made = @ + 1], TheStore, proc,
                    Product(World, None, 0, "Raw", FALSE, <<>>)))
    /\ ret' = [op |-> "put", proc |-> proc]
    /\ UNCHANGED <<topoVars, run, results>>

\* proc calls store.get() and yields the request
GetCall(proc) ==
    /\ ~Busy(proc)
    /\ Len(get_log) + Len(stores[TheStore].get_queue) < MaxPuts
    /\ SetWorld(get(World, TheStore, proc))
    /\ ret' = [op |-> "get", proc |-> proc]
    /\ UNCHANGED <<topoVars, run, results>>

\* the next event is processed: a put that succeeded lets the store serve a get,
\* a get that succeeded lets it admit a put; the process that waited is free again
Resume ==
    /\ env.queue # <<>>
    /\ Stepped(IF NextEvent.event.kind = "StorePut" THEN trigger_get(Pop(World), TheStore)
               ELSE trigger_put(Pop(World), TheStore))

NextStore ==
    \/ \E proc \in Procs : PutCall(proc)
    \/ \E proc \in Procs : GetCall(proc)
    \/ Resume

SpecStore == InitStore /\ [][NextStore]_vars

(***************************************************************************)
(* Direct calls of get_route on the routing table of one node               *)
(***************************************************************************)
\* the number of edges that leave the node
MaxRoutes == 3
RouteTargets == <<"A", "B", "C", "_sink", "_reject">>

\* a node X with an edge to the i-th target under the i-th condition
RECURSIVE FanOut(_, _)
FanOut(conditions, i) ==
    IF i = 0
    THEN add_node(add_node(add_node(add_node(EmptyGraph, "X"), "A"), "B"), "C")
    ELSE add_edge(FanOut(conditions, i - 1),
                  BufferEdge("X", RouteTargets[i], conditions[i])).g

InitRoute ==
    /\ \E n \in 0..MaxRoutes : \E conditions \in [1..n -> RouteConditions] :
           LET g == FanOut(conditions, n)
           IN /\ nodes = g.nodes
              /\ edges = g.edges
              /\ outgoing = g.outgoing
              /\ incoming = g.incoming
    /\ NoAggregator
    /\ NoSimulation
    /\ ret = NoCall

\* connections["X"].get_route(product) on the table build makes for X
GetRoute(is_defective) ==
    LET product == Product(World, "Tube", 0, "X", is_defective, <<>>)
        r == get_route(Connections(Graph, "X"), product)
    IN /\ ret' = [op |-> "get_route", product |-> product, store |-> r.store,
                  error |-> r.error]
       /\ UNCHANGED <<topoVars, aggVars, simVars>>

NextRoute == \E is_defective \in BOOLEAN : GetRoute(is_defective)

SpecRoute == InitRoute /\ [][NextRoute]_vars

(***************************************************************************)
(* The hard-coded Equipment.run of simpy_demo/equipment.py, run beside the *)
(* orchestrated Equipment on the same layout and the same seed: results     *)
(* holds the world of the hard-coded stations                              *)
(***************************************************************************)
\* Equipment.log of the hard-coded station: no aggregator, always the event log
HardLog(w, m, new_state) ==
    LET e == w.machines[m]
        time_spent == w.env.now - e.state_start_time
        entry(state, event_type) ==
            [timestamp |-> w.env.now, machine |-> e.cfg.name, state |-> state,
             event_type |-> event_type]
    IN IF e.state = new_state THEN w
       ELSE [w EXCEPT
               !.machines[m].time_in_state =
                   IF e.state \in DOMAIN @ THEN [@ EXCEPT ![e.state] = @ + time_spent] ELSE @,
               !.machines[m].event_log =
                   @ \o <<entry(e.state, "end"), entry(new_state, "start")>>,
               !.machines[m].state = new_state,
               !.machines[m].state_start_time = w.env.now]

\* PHASE 4 of the hard-coded run, up to its yield
HardExecute(w, m) ==
    timeout([HardLog(w, m, "EXECUTE") EXCEPT !.machines[m].pc = "execute"], m,
            w.machines[m].cfg.cycle_time_sec)

\* PHASE 3: jam_prob > 0 and random.random() < jam_prob; the draw is the k-th of
\* the step and is made only when jam_prob > 0
HardMicrostop(w, m, draws, k) ==
    LET cfg == w.machines[m].cfg
    IN IF cfg.jam_prob > 0
       THEN IF random(w, draws, k) < cfg.jam_prob
            THEN timeout([HardLog(drawn(w, draws, k), m, "JAMMED")
                             EXCEPT !.machines[m].pc = "microstop"], m, cfg.jam_time_sec)
            ELSE HardExecute(drawn(w, draws, k), m)
       ELSE HardExecute(w, m)

\* PHASE 2: "if self.cfg.reliability.mtbf_min:" skips the check for None and for 0
HardBreakdown(w, m, draws) ==
    LET cfg == w.machines[m].cfg
    IN IF IsSome(cfg.mtbf_sec) /\ Val(cfg.mtbf_sec) # 0
       THEN IF random(w, draws, 1) < p_fail(cfg)
            THEN LET w1 == HardLog(drawn(w, draws, 1), m, "DOWN")
                     repair_time == expovariate(random(w1, draws, 2), cfg.mttr_sec)
                 IN timeout([drawn(w1, draws, 2) EXCEPT !.machines[m].pc = "breakdown"], m,
                            repair_time)
            ELSE HardMicrostop(drawn(w, draws, 1), m, draws, 2)
       ELSE HardMicrostop(w, m, draws, 1)

\* PHASE 1: the next get of the loop over range(batch_in), or the phases after it
HardCollect(w, m, draws) ==
    LET e == w.machines[m]
    IN IF Len(e.collected) < e.cfg.batch_in
       THEN get([w EXCEPT !.machines[m].pc = "collect"], e.upstream, m)
       ELSE HardBreakdown(w, m, draws)

\* PHASES 5 and 6: _transform_material, the counters, the inspection, BLOCKED and
\* the put
HardTransform(w, m, draws) ==
    LET e == w.machines[m]
        inputs == e.collected
        has_inherited_defect == \E i \in 1..Len(inputs) : inputs[i].is_defective
        drawn_defect == random(w, draws, 1) < e.cfg.defect_rate
        is_bad == has_inherited_defect \/ drawn_defect
        genealogy == [i \in 1..Len(inputs) |-> inputs[i].uid]
        w1 == drawn(w, draws, 1)
        pass_through == e.cfg.output_type = "None"
        output_item == IF pass_through THEN inputs[1]
                       ELSE Product(w, e.cfg.output_type, w.env.now, e.cfg.name, is_bad,
                                    genealogy)
        new_defect == ~pass_through /\ drawn_defect
        counted(type) == IF output_item.type = type THEN 1 ELSE 0
        inspected == e.cfg.detection_prob > 0 /\ output_item.is_defective
        routed_to_reject == inspected /\ random(w1, draws, 2) < e.cfg.detection_prob
        w2 == IF inspected THEN drawn(w1, draws, 2) ELSE w1
        w3 == [w2 EXCEPT
                 !.made = IF pass_through THEN @ ELSE @ + 1,
                 !.machines[m].items_produced = @ + 1,
                 !.machines[m].tubes_produced = @ + counted("Tube"),
                 !.machines[m].cases_produced = @ + counted("Case"),
                 !.machines[m].pallets_produced = @ + counted("Pallet"),
                 !.machines[m].defects_created = IF new_defect THEN @ + 1 ELSE @,
                 !.machines[m].defects_detected =
                     IF inspected /\ routed_to_reject THEN @ + 1 ELSE @,
                 !.machines[m].defects_escaped =
                     IF inspected /\ ~routed_to_reject THEN @ + 1 ELSE @]
        w4 == HardLog(w3, m, "BLOCKED")
        use_graph_routing == IsSome(e.connections)
                             /\ Len(Val(e.connections).downstream_routes) > 1
        destination == IF use_graph_routing
                       THEN Val(get_route(Val(e.connections), output_item).store)
                       ELSE IF routed_to_reject /\ e.reject_store # Nothing
                            THEN e.reject_store ELSE e.downstream
    IN put([w4 EXCEPT !.machines[m].pc = "inspect"], destination, m, output_item)

\* the world of the hard-coded stations has an event to process before the horizon
HardReady(w) == w.env.queue # <<>> /\ w.env.queue[1].time < run.duration_sec

\* Environment.step in the world of the hard-coded stations: the process the event
\* belongs to runs to its next yield
HardStepOf(w, draws) ==
    LET next == w.env.queue[1]
        ev == next.event
        m == ev.proc
        popped == [w EXCEPT !.env.now = next.time, !.env.queue = Tail(@)]
    IN CASE ev.kind = "Initialize" ->
                HardCollect([HardLog(popped, m, "STARVED") EXCEPT !.machines[m].collected = <<>>],
                            m, draws)
         [] ev.kind = "StoreGet" ->
                HardCollect([trigger_put(popped, ev.store)
                                EXCEPT !.machines[m].collected = Append(@, Val(ev.value))],
                            m, draws)
         [] ev.kind = "Timeout" /\ w.machines[m].pc = "breakdown" ->
                HardMicrostop(popped, m, draws, 1)
         [] ev.kind = "Timeout" /\ w.machines[m].pc = "microstop" -> HardExecute(popped, m)
         [] ev.kind = "Timeout" /\ w.machines[m].pc = "execute" ->
                HardTransform(popped, m, draws)
         [] ev.kind = "StorePut" /\ m = None -> trigger_get(popped, ev.store)
         [] ev.kind = "StorePut" /\ m # None ->
                HardCollect([HardLog(trigger_get(popped, ev.store), m, "STARVED")
                                EXCEPT !.machines[m].collected = <<>>], m, draws)

\* the lines both kinds of station are run on: the lossy station, the lossy
\* station with mtbf_min = 0, and the quality line with its pass-through Inspector
EquivLines ==
    {<<LossyConfigs["Filler"]>>,
     <<[LossyConfigs["Filler"] EXCEPT !.mtbf_sec = Some(0)]>>,
     QualityLine}

\* the same layout built twice, and random.seed called with the same seed for both
InitEquiv ==
    /\ EmptyTopo
    /\ \E configs \in EquivLines :
           LET w == build_layout(NewWorld(seed(NewRandom), NewAggregator(2, 0)), configs,
                                 SourceConfig(3))
           IN /\ IsWorld(w)
              /\ results = <<w>>
    /\ run = [RunConfig(Some(42), Some(0), MaxDurationSec) EXCEPT !.started = Some(0)]
    /\ ret = NoCall

\* a station's process has ended with an exception, and env.run with it
Crashed == \E m \in DOMAIN machines : machines[m].pc = "ZeroDivisionError"

\* a step of the run of the orchestrated stations
OrchestratedStep ==
    /\ ret.op # "step"
    /\ ~Crashed
    /\ Next

\* the same step of the run of the hard-coded stations: the seed being the same,
\* the generator returns what it returned to the orchestrated stations
HardStep(draws) ==
    /\ ret.op = "step"
    /\ LET w == [results[1] EXCEPT !.rng.tape = rng.tape]
       IN results' = <<IF HardReady(w) THEN HardStepOf(w, draws) ELSE w>>
    /\ ret' = [op |-> "hard_step"]
    /\ UNCHANGED <<topoVars, aggVars, env, stores, machines, order, rng, made, get_log,
                   put_log, run>>

NextEquiv ==
    \/ OrchestratedStep
    \/ \E draws \in Draws : HardStep(draws)

SpecEquiv == InitEquiv /\ [][NextEquiv]_vars

(***************************************************************************)
(* BehaviorOrchestrator.run_cycle over the phases of a behaviour: run holds *)
(* the locals of the generator, results the phases it has started           *)
(***************************************************************************)
\* the number of phases in the behaviour
MaxPhases == 3
\* what the phases return as outputs and as duration
PhaseOutputs == {<<>>, <<"a">>, <<"b">>}
PhaseDurations == {1, 2}

PhaseResult(outputs, new_defect, should_continue, duration_sec) ==
    [outputs |-> outputs, new_defect |-> new_defect, should_continue |-> should_continue,
     duration_sec |-> duration_sec]

\* what a phase's generator can end with: a PhaseResult, or None
PhaseResults ==
    {Nothing} \cup
    {Some(PhaseResult(outputs, new_defect, should_continue, duration_sec)) :
        outputs \in PhaseOutputs, new_defect \in BOOLEAN, should_continue \in BOOLEAN,
        duration_sec \in PhaseDurations}

\* PhaseConfig.enabled, and what the phase's is_enabled says of the machine
PhaseConfigs == [enabled : {"always", "config"}, is_enabled : BOOLEAN]

\* BehaviorOrchestrator.should_run_phase
should_run_phase(phase_config) ==
    IF phase_config.enabled = "always" THEN TRUE ELSE phase_config.is_enabled

\* (mutant) the outputs of a phase become the inputs of the next even when empty
ProcessResultThreading(c, result) ==
    IF ~IsSome(result) THEN c
    ELSE LET r == Val(result)
             c1 == [c EXCEPT !.combined_result.outputs = r.outputs, !.inputs = r.outputs]
             c2 == IF r.new_defect THEN [c1 EXCEPT !.combined_result.new_defect = TRUE] ELSE c1
         IN IF ~r.should_continue
            THEN [c2 EXCEPT !.combined_result.should_continue = FALSE, !.broke = TRUE]
            ELSE [c2 EXCEPT !.combined_result.duration_sec = @ + r.duration_sec]

\* the block "Process phase result" of run_cycle
ProcessResult(c, result) ==
    IF ~IsSome(result) THEN c
    ELSE LET r == Val(result)
             c1 == IF r.outputs # <<>>
                   THEN [c EXCEPT !.combined_result.outputs = r.outputs, !.inputs = r.outputs]
                   ELSE c
             c2 == IF r.new_defect THEN [c1 EXCEPT !.combined_result.new_defect = TRUE] ELSE c1
         IN IF ~r.should_continue
            THEN [c2 EXCEPT !.combined_result.should_continue = FALSE, !.broke = TRUE]
            ELSE [c2 EXCEPT !.combined_result.duration_sec = @ + r.duration_sec]

\* run_cycle is called: combined_result = PhaseResult(), inputs = []
InitCycle ==
    /\ EmptyTopo
    /\ NoAggregator
    /\ NoWorld
    /\ \E n \in 1..MaxPhases :
           run = [phases |-> n, phase |-> 1, inputs |-> <<>>,
                  combined_result |-> PhaseResult(<<>>, FALSE, TRUE, 0), broke |-> FALSE,
                  returned |-> FALSE]
    /\ results = <<>>
    /\ ret = NoCall

\* the loop is at a phase
AtPhase == ~run.broke /\ run.phase <= run.phases

\* an iteration of the loop for a phase that should not run: continue
SkipPhase(phase_config) ==
    /\ AtPhase
    /\ ~should_run_phase(phase_config)
    /\ run' = [run EXCEPT !.phase = @ + 1]
    /\ ret' = [op |-> "continue", phase |-> run.phase]
    /\ UNCHANGED <<topoVars, aggVars, env, stores, machines, order, rng, made, get_log,
                   put_log, results>>

\* an iteration of the loop for a phase that runs: phase.execute is given inputs,
\* its events are passed on until it ends with result, and the result is processed
RunPhase(phase_config, result) ==
    /\ AtPhase
    /\ should_run_phase(phase_config)
    /\ run' = [ProcessResult(run, result) EXCEPT !.phase = @ + 1]
    /\ results' = Append(results, [phase |-> run.phase, inputs |-> run.inputs,
                                    result |-> result])
    /\ ret' = [op |-> "execute", phase |-> run.phase, inputs |-> run.inputs,
               result |-> result]
    /\ UNCHANGED <<topoVars, aggVars, env, stores, machines, order, rng, made, get_log,
                   put_log>>

\* the loop is over or was left by break: return combined_result
ReturnCycle ==
    /\ ~AtPhase
    /\ ~run.returned
    /\ run' = [run EXCEPT !.returned = TRUE]
    /\ ret' = [op |-> "run_cycle", result |-> run.combined_result]
    /\ UNCHANGED <<topoVars, aggVars, env, stores, machines, order, rng, made, get_log,
                   put_log, results>>

NextCycle ==
    \/ \E phase_config \in PhaseConfigs : SkipPhase(phase_config)
    \/ \E phase_config \in PhaseConfigs, result \in PhaseResults : RunPhase(phase_config, result)
    \/ ReturnCycle

SpecCycle == InitCycle /\ [][NextCycle]_vars

(***************************************************************************)
(* Claims about the buffers of a running line                              *)
(***************************************************************************)
Count(log_, test(_)) == Cardinality({i \in 1..Len(log_) : test(log_[i])})

\* the capacity the layout's configuration gives a store: the buffer after a machine
\* of a linear line has that machine's buffer_capacity (none after the last machine),
\* the buffer of a graph edge has its target's; the special stores have none
ConfiguredCapacity(s) ==
    IF Len(s) = 2 /\ s[2] # order[Len(order)] THEN Some(machines[s[2]].cfg.buffer_capacity)
    ELSE IF Len(s) = 3 /\ s[3] \in DOMAIN machines
         THEN Some(machines[s[3]].cfg.buffer_capacity)
         ELSE Nothing

Level(table, s) == Len(table[s].items)
Waiting(table, s, m) == \E i \in 1..Len(table[s].put_queue) : table[s].put_queue[i].proc = m

\* C1: every buffer of the layout holds between 0 and its configured capacity items at
\* every instant, and a step in which a station puts into a buffer that is at capacity
\* leaves the buffer as it was and the station waiting in the buffer's put queue.
C1_BufferWithinCapacity ==
    [][/\ \A s \in DOMAIN stores' :
            /\ stores'[s].capacity = ConfiguredCapacity(s)'
            /\ Level(stores', s) >= 0
            /\ IsSome(stores'[s].capacity) => Level(stores', s) <= Val(stores'[s].capacity)
       /\ \A m \in DOMAIN machines :
            machines[m].pc = "execute" /\ machines'[m].pc = "inspect" =>
                LET s == Destination(machines'[m], machines'[m].context.routed_to_reject)
                IN IF IsSome(stores[s].capacity) /\ Level(stores, s) = Val(stores[s].capacity)
                   THEN /\ stores'[s].items = stores[s].items
                        /\ Waiting(stores', s, m)
                        /\ machines'[m].state = "BLOCKED"
                   ELSE /\ Level(stores', s) = Level(stores, s) + 1
                        /\ ~Waiting(stores', s, m)]_vars

\* a station waits to put into a bounded buffer that is full
C1_Witness ==
    \E s \in DOMAIN stores, m \in DOMAIN machines :
        /\ IsSome(stores[s].capacity)
        /\ Level(stores, s) = Val(stores[s].capacity)
        /\ Waiting(stores, s, m)
        /\ machines[m].pc = "inspect"

Objects == {get_log[i].oid : i \in 1..Len(get_log)} \cup {put_log[i].oid : i \in 1..Len(put_log)}
Gets(s, o) == Count(get_log, LAMBDA r : r.store = s /\ r.oid = o)
Puts(s, o) == Count(put_log, LAMBDA r : r.store = s /\ r.oid = o)
Held(s, o) == Cardinality({i \in 1..Len(stores[s].items) : stores[s].items[i].oid = o})

\* C2 (as stated): no item is delivered to two Collect calls over the whole run and
\* across all stations.
C2_DeliveredOnceOverall ==
    \A o \in Objects : Count(get_log, LAMBDA r : r.oid = o) <= 1

\* C2 (amended): every item instance is put into a given buffer at most once and is
\* returned by at most one get() of that buffer, also when several stations read the
\* same store; until then it is in the buffer exactly once. (A pass-through station
\* puts the instance it collected into its own output buffer, so the same instance
\* is delivered again to the next station's Collect.)
C2_DeliveredOncePerPut ==
    \A s \in DOMAIN stores, o \in Objects :
        /\ Puts(s, o) <= 1
        /\ Gets(s, o) <= Puts(s, o)
        /\ Held(s, o) = Puts(s, o) - Gets(s, o)

\* two stations have each received items from the store they share
C2_Witness ==
    \E s \in DOMAIN stores, m1, m2 \in DOMAIN machines :
        /\ m1 # m2
        /\ Count(get_log, LAMBDA r : r.store = s /\ r.proc = m1) >= 1
        /\ Count(get_log, LAMBDA r : r.store = s /\ r.proc = m2) >= 1

Taken(m) == Count(get_log, LAMBDA r : r.proc = m)
Output(m) == Count(put_log, LAMBDA r : r.proc = m)
Rejected(m) == Count(put_log, LAMBDA r : r.proc = m /\ r.store = machines[m].reject_store)
\* items of the unfinished cycle: collected or on their way to Collect, or being
\* processed, or in the output that waits to be admitted
InCycle(m) ==
    LET e == machines[m]
        arriving == Cardinality({i \in 1..Len(env.queue) :
                                    /\ env.queue[i].event.kind = "StoreGet"
                                    /\ env.queue[i].event.proc = m})
    IN CASE e.pc = "Initialize" -> 0
         [] e.pc = "collect" -> Len(e.collected) + arriving
         [] e.pc = "inspect" -> IF \E s \in DOMAIN stores : Waiting(stores, s, m)
                                THEN e.cfg.batch_in ELSE 0
         [] OTHER -> e.cfg.batch_in

RECURSIVE BatchProduct(_)
BatchProduct(k) == IF k = 0 THEN 1 ELSE machines[order[k]].cfg.batch_in * BatchProduct(k - 1)
RECURSIVE RejectedUnits(_)
RejectedUnits(k) ==
    IF k = 0 THEN 0 ELSE Rejected(order[k]) * BatchProduct(k) + RejectedUnits(k - 1)
RECURSIVE RejectedCount(_)
RejectedCount(k) == IF k = 0 THEN 0 ELSE Rejected(order[k]) + RejectedCount(k - 1)

LinearLine == nodes = <<>> /\ order # <<>>
InSink == Level(stores, machines[order[Len(order)]].downstream)
LeftSource == Taken(order[1])

\* C3 (as stated, second part): the items that entered the sink plus the reject store
\* never exceed the items that left the source divided by the product of the batch
\* sizes along the line.
C3_ExitsWithinSourceOverLine ==
    LinearLine => (InSink + RejectedCount(Len(order))) * BatchProduct(Len(order)) <= LeftSource

\* C3 (amended): for every station with batch size b, items taken = b x outputs put
\* + items of its unfinished cycle, which are between 0 and b; consequently, in a
\* linear line, counting every item that entered the sink or the reject store with
\* the product of the batch sizes of the stations it came through, the total never
\* exceeds the items that left the source.
C3_Conservation ==
    /\ \A m \in DOMAIN machines :
        /\ Taken(m) = machines[m].cfg.batch_in * Output(m) + InCycle(m)
        /\ InCycle(m) >= 0
        /\ InCycle(m) <= machines[m].cfg.batch_in
    /\ LinearLine =>
        InSink * BatchProduct(Len(order)) + RejectedUnits(Len(order)) <= LeftSource

\* a batching station has put an output and holds part of its next batch, and
\* an earlier station has rejected an item
C3_Witness ==
    /\ LinearLine
    /\ \E m \in DOMAIN machines :
        /\ machines[m].cfg.batch_in > 1
        /\ Output(m) >= 1
        /\ InCycle(m) >= 1
        /\ InCycle(m) < machines[m].cfg.batch_in
    /\ RejectedCount(Len(order)) >= 1

SourceFed(m) == machines[m].upstream \in {<<"source">>, <<"_source">>}
StarvedTime(m) ==
    machines[m].time_in_state["STARVED"]
        + (IF machines[m].state = "STARVED" THEN env.now - machines[m].state_start_time ELSE 0)

\* C9: a station whose upstream is the source store has zero STARVED time, and every
\* get it issues is satisfied at the instant it is issued (it never waits in the
\* source store's get queue).
C9_SourceFedNeverStarved ==
    \A m \in DOMAIN machines :
        SourceFed(m) =>
            /\ StarvedTime(m) = 0
            /\ \A i \in 1..Len(stores[machines[m].upstream].get_queue) :
                   stores[machines[m].upstream].get_queue[i] # m

Suspended(m) ==
    \E s \in DOMAIN stores :
        \/ Waiting(stores, s, m)
        \/ \E i \in 1..Len(stores[s].get_queue) : stores[s].get_queue[i] = m

\* C10: a suspended station is always resumed later; in particular no station waits
\* on a get or a put when no event is left that could lead to its being resumed.
C10_SuspendedResumes ==
    \A m \in DOMAIN machines : Suspended(m) => env.queue # <<>>

(***************************************************************************)
(* Claims about the event queue                                            *)
(***************************************************************************)
\* the events that were waiting in the queue beside the one a step processed
Passed == {env.queue[i] : i \in 1..Len(env.queue)} \ {e \in {env.queue[i] : i \in 1..Len(env.queue)} : e.eid = ret'.eid}

Added(old, new, s) == {new[i] : i \in {j \in (Len(old) + 1)..Len(new) : new[j].store = s}}
\* the objects a log records for store s, in order
OidsOf(log_, s) ==
    LET RECURSIVE Pick(_)
        Pick(i) == IF i > Len(log_) THEN <<>>
                   ELSE IF log_[i].store = s THEN <<log_[i].oid>> \o Pick(i + 1)
                   ELSE Pick(i + 1)
    IN Pick(1)

\* C12: items leave a store in the order they were put into it; a get that is
\* served while gets wait is the one that joined the wait queue first, and it
\* receives the oldest item; a put that is admitted while puts wait is the one
\* that joined first, whatever the get queue holds.
C12_FifoFairness ==
    [][\A s \in DOMAIN stores :
          /\ IsPrefix(OidsOf(get_log', s), OidsOf(put_log', s))
          /\ \A x \in Added(get_log, get_log', s) :
                 /\ stores[s].items # <<>> /\ x.oid = Head(stores[s].items).oid
                 /\ stores[s].get_queue # <<>> =>
                        /\ x.proc = Head(stores[s].get_queue)
                        /\ IsPrefix(Tail(stores[s].get_queue), stores'[s].get_queue)
          /\ \A x \in Added(put_log, put_log', s) :
                 stores[s].put_queue # <<>> =>
                     /\ x.proc = Head(stores[s].put_queue).proc
                     /\ x.oid = Head(stores[s].put_queue).item.oid
                     /\ IsPrefix(Tail(stores[s].put_queue), stores'[s].put_queue)]_vars

\* a put has succeeded and the store has served the get that waited longest while
\* another get still waits, after a put had to wait for room
C12_Witness ==
    /\ TheStore \in DOMAIN stores
    /\ ret.op = "step" /\ ret.event.kind = "StorePut"
    /\ stores[TheStore].get_queue # <<>>
    /\ \E i \in 1..Len(env.queue) :
           env.queue[i].event.kind = "StoreGet" /\ env.queue[i].eid = env.eid - 1
    /\ Len(put_log) >= 2

(***************************************************************************)
(* Claims about the cycle of a station                                     *)
(***************************************************************************)
\* the states a station has entered, in order, as its debug log records them
Emitted(e) ==
    LET RECURSIVE Pick(_)
        Pick(i) == IF i > Len(e.event_log) THEN <<>>
                   ELSE IF e.event_log[i].event_type = "start"
                        THEN <<e.event_log[i].state>> \o Pick(i + 1)
                        ELSE Pick(i + 1)
    IN Pick(1)

\* the states that may follow a state in STARVED (DOWN? JAMMED? EXECUTE BLOCKED STARVED)*
Follows(state) ==
    CASE state = "STARVED" -> {"DOWN", "JAMMED", "EXECUTE"}
      [] state = "DOWN" -> {"JAMMED", "EXECUTE"}
      [] state = "JAMMED" -> {"EXECUTE"}
      [] state = "EXECUTE" -> {"BLOCKED"}
      [] state = "BLOCKED" -> {"STARVED"}
      [] OTHER -> {}

\* the phases a process can be suspended in next, after being suspended in pc
SuspendsAfter(pc) ==
    CASE pc \in {"Initialize", "inspect", "collect"} ->
             {"collect", "breakdown", "microstop", "execute"}
      [] pc = "breakdown" -> {"microstop", "execute"}
      [] pc = "microstop" -> {"execute"}
      [] pc = "execute" -> {"inspect"}
      [] OTHER -> {}

\* the state a station is in while suspended in a phase
StateIn(pc) ==
    CASE pc = "collect" -> "STARVED"
      [] pc = "breakdown" -> "DOWN"
      [] pc = "microstop" -> "JAMMED"
      [] pc = "execute" -> "EXECUTE"
      [] pc = "inspect" -> "BLOCKED"
      [] OTHER -> "IDLE"

\* C13: in every cycle the phases run in the order Collect, Breakdown, Microstop,
\* Execute, Transform, Inspect: a station suspended in a phase is next suspended
\* in a later phase of the cycle, or after Inspect in a phase of the next cycle,
\* with the batch collected before Breakdown and the output made before Inspect;
\* the states it enters are STARVED followed by repetitions of
\* (optional DOWN, optional JAMMED, EXECUTE, BLOCKED, STARVED).
C13_PhaseOrder ==
    [][\A m \in DOMAIN machines' :
          LET e == machines'[m]
          IN \A seq \in {Emitted(e)} :
             /\ seq # <<>> => seq[1] = "STARVED"
             /\ \A i \in 1..(Len(seq) - 1) : seq[i + 1] \in Follows(seq[i])
             /\ e.state = StateIn(e.pc)
             /\ e.pc \in {"breakdown", "microstop", "execute", "inspect"} =>
                    Len(e.context.collected_inputs) = e.cfg.batch_in
             /\ e.pc = "inspect" <=> IsSome(e.context.transformed_output)
             /\ m \in DOMAIN machines /\ e # machines[m] =>
                    e.pc \in SuspendsAfter(machines[m].pc)]_vars

\* a station has gone through a whole cycle with a breakdown and a jam in it
C13_Witness ==
    \E m \in DOMAIN machines :
        \E i \in 1..(Len(Emitted(machines[m])) - 5) :
            SubSeq(Emitted(machines[m]), i, i + 5)
                = <<"STARVED", "DOWN", "JAMMED", "EXECUTE", "BLOCKED", "STARVED">>

\* the random draws the step of a station consumes when each enabled phase draws
\* as its code does: Breakdown one and a second for the repair time, Microstop
\* one, Transform one, Inspect one for a defective output it can detect
DrawsOf(before, after) ==
    LET cfg == after.cfg
        jam == IF cfg.jam_prob > 0 THEN 1 ELSE 0
    IN CASE after.pc = "collect" -> 0
         [] after.pc = "inspect" ->
                IF cfg.detection_prob > 0 /\ Val(after.context.transformed_output).is_defective
                THEN 2 ELSE 1
         [] before.pc = "microstop" -> 0
         [] before.pc = "breakdown" -> jam
         [] after.pc = "breakdown" -> 2
         [] OTHER -> (IF IsSome(cfg.mtbf_sec) THEN 1 ELSE 0) + jam

\* C14: a station without mtbf_min is never DOWN and draws nothing for Breakdown,
\* a station with jam_prob = 0 is never JAMMED and draws nothing for Microstop; a
\* skipped phase takes no time and changes no state, so a station with both
\* skipped goes from Collect to Execute in one instant; and every cycle runs
\* Collect, Execute, Transform and Inspect: each output made was preceded by a
\* full batch and one cycle time in EXECUTE.
C14_PhaseEnablement ==
    [][\A m \in DOMAIN machines \cap DOMAIN machines' :
          LET e == machines'[m]
          IN /\ ~IsSome(e.cfg.mtbf_sec) =>
                    e.state # "DOWN" /\ e.pc # "breakdown" /\ e.time_in_state["DOWN"] = 0
             /\ e.cfg.jam_prob = 0 =>
                    e.state # "JAMMED" /\ e.pc # "microstop" /\ e.time_in_state["JAMMED"] = 0
             /\ e.time_in_state["EXECUTE"]
                    = e.cfg.cycle_time_sec * (e.items_produced + IF e.pc = "inspect" THEN 1 ELSE 0)
             /\ e # machines[m] =>
                    /\ rng'.pos - rng.pos = DrawsOf(machines[m], e)
                    /\ e.items_produced > machines[m].items_produced =>
                           /\ Len(machines[m].context.collected_inputs) = e.cfg.batch_in
                           /\ IsSome(machines[m].context.transformed_output)]_vars

\* a station with neither Breakdown nor Microstop enabled executes its second
\* cycle, after random numbers have been drawn
C14_Witness ==
    /\ \E m \in DOMAIN machines :
           /\ ~IsSome(machines[m].cfg.mtbf_sec) /\ machines[m].cfg.jam_prob = 0
           /\ machines[m].items_produced >= 1
           /\ machines[m].pc = "execute"
    /\ rng.pos > 0

(***************************************************************************)
(* Claims about Equipment.log                                              *)
(***************************************************************************)
MachineStates == {"IDLE", "STARVED", "EXECUTE", "DOWN", "JAMMED", "BLOCKED"}

\* what log(s) called now on machine m would leave behind, against the claim
LogAsClaimed(m, s) ==
    LET w == World
        a == log(w, m, s)
        e == w.machines[m]
        f == a.machines[m]
        elapsed == w.env.now - e.state_start_time
    IN IF s = e.state THEN a = w
       ELSE /\ f.state = s
            /\ f.state_start_time = w.env.now
            /\ \A k \in DOMAIN e.time_in_state :
                   f.time_in_state[k] = e.time_in_state[k] + IF k = e.state THEN elapsed ELSE 0
            /\ IF e.event_aggregator
               THEN /\ a.agg.event_index = w.agg.event_index + 1
                    /\ a.agg.event_buffer[Len(a.agg.event_buffer)]
                           = BufferedEvent(w.agg.event_index, w.env.now, e.cfg.name, s, e.state,
                                           Some(elapsed))
                    /\ a.agg.last_state[e.cfg.name] = <<s, w.env.now>>
               ELSE a.agg = w.agg
            /\ IF e.debug_events
               THEN /\ Len(f.event_log) = Len(e.event_log) + 2
                    /\ IsPrefix(e.event_log, f.event_log)
                    /\ f.event_log[Len(f.event_log)].state = s
                    /\ f.event_log[Len(f.event_log) - 1].state = e.state
               ELSE f.event_log = e.event_log
            \* nothing else changes
            /\ [a EXCEPT !.machines[m].state = e.state,
                         !.machines[m].state_start_time = e.state_start_time,
                         !.machines[m].time_in_state = e.time_in_state,
                         !.machines[m].event_log = e.event_log,
                         !.agg = w.agg] = w

\* C15: log(s) with s the current state changes nothing; log(s) with another s
\* adds now - state_start_time to the accumulator of the outgoing state, notifies
\* the aggregator (when there is one) once with the outgoing state and that
\* duration, sets state and state_start_time, and appends to the debug log only
\* under the debug flag.
C15_LogFrame == \A m \in DOMAIN machines : \A s \in MachineStates : LogAsClaimed(m, s)

\* a station with an aggregator and the debug flag has logged, and time has
\* passed in its current state
C15_Witness ==
    \E m \in DOMAIN machines :
        /\ machines[m].event_aggregator /\ machines[m].debug_events
        /\ machines[m].event_log # <<>>
        /\ event_index > 0
        /\ machines[m].state = "EXECUTE"
        /\ env.now > machines[m].state_start_time

(***************************************************************************)
(* Claims about routing                                                    *)
(***************************************************************************)
\* store s holds the object, in its items or in a put that waits for room
Holds(table, s, o) ==
    \/ \E i \in 1..Len(table[s].items) : table[s].items[i].oid = o
    \/ \E i \in 1..Len(table[s].put_queue) : table[s].put_queue[i].item.oid = o

RejectStores == {<<"reject_bin">>, <<"_reject">>}

\* C16: when Inspect routes an output without a routing table, the output goes to
\* the reject store exactly when it is defective, the station's detection_prob is
\* positive and the detection draw was below detection_prob, and to the primary
\* downstream buffer otherwise; it is put into that one store only, and every
\* item in a reject store is defective.
C16_RejectRouting ==
    [][/\ \A m \in DOMAIN machines \cap DOMAIN machines' :
            machines[m].pc = "execute" /\ machines'[m].pc = "inspect" =>
                LET e == machines'[m]
                    output_item == Val(e.context.transformed_output)
                    rejected == e.context.routed_to_reject
                    inspected == e.cfg.detection_prob > 0 /\ output_item.is_defective
                IN /\ rejected => inspected /\ e.reject_store \in RejectStores
                   /\ inspected <=> rng'.pos = rng.pos + 2
                   /\ inspected /\ rng'.seeded =>
                          (rejected <=> rng'.tape[rng'.pos] < e.cfg.detection_prob)
                   /\ {s \in DOMAIN stores' : Holds(stores', s, output_item.oid)}
                          = {IF rejected THEN e.reject_store ELSE e.downstream}
       /\ \A s \in RejectStores \cap DOMAIN stores' :
            \A i \in 1..Len(stores'[s].items) : stores'[s].items[i].is_defective]_vars

\* a station has sent one defective output to the reject store and let another
\* escape downstream
C16_Witness ==
    \E m \in DOMAIN machines :
        /\ machines[m].defects_detected > 0
        /\ machines[m].defects_escaped > 0
        /\ machines[m].reject_store # Nothing
        /\ stores[machines[m].reject_store].items # <<>>
        /\ \E i \in 1..Len(stores[machines[m].downstream].items) :
               stores[machines[m].downstream].items[i].is_defective

(***************************************************************************)
(* Claims about the routing table                                          *)
(***************************************************************************)
\* the indices of the rules that carry a condition which the product satisfies
Satisfied(routes, product) ==
    {i \in 1..Len(routes) :
        \/ routes[i].condition = "product.is_defective" /\ product.is_defective
        \/ routes[i].condition = "not product.is_defective" /\ ~product.is_defective
        \/ routes[i].condition = "not product.is_flagged"}

Unconditioned(routes) == {i \in 1..Len(routes) : routes[i].condition = None}

First(S) == CHOOSE i \in S : \A j \in S : i <= j

\* C17: get_route returns the store of the first edge, in edge order, whose
\* condition the product satisfies, and when no conditioned edge is satisfied the
\* store of the first edge without a condition (stated for the tables that have
\* an edge of one kind or the other).
C17_FirstMatchThenDefault ==
    ret.op = "get_route" =>
        LET routes == Connections(Graph, "X").downstream_routes
            satisfied == Satisfied(routes, ret.product)
            unconditioned == Unconditioned(routes)
        IN IF satisfied # {} THEN ret.store = Some(routes[First(satisfied)].store)
           ELSE IF unconditioned # {} THEN ret.store = Some(routes[First(unconditioned)].store)
           ELSE TRUE

\* C18: a station that LayoutBuilder.build created for a node with more than one
\* outgoing edge puts each output into the buffer that the node's routing table
\* gives for it: that of the first matching edge, else the default edge.
C18_GraphRouting ==
    [][\A m \in DOMAIN machines \cap DOMAIN machines' :
          /\ machines[m].pc = "execute" /\ machines'[m].pc = "inspect"
          /\ Len(outgoing[m]) > 1
          => LET output_item == Val(machines'[m].context.transformed_output)
                 route == get_route(Connections(Graph, m), output_item)
             IN {s \in DOMAIN stores' : Holds(stores', s, output_item.oid)}
                    = {Val(route.store)}]_vars

(***************************************************************************)
(* Claims about repeated runs                                              *)
(***************************************************************************)
\* the state-transition trace of a compiled event frame: which machine entered or
\* left which state at which simulated time, in order
Trace(df_ev) ==
    [i \in 1..Len(df_ev) |->
        [timestamp |-> df_ev[i].timestamp, machine |-> df_ev[i].machine,
         state |-> df_ev[i].state, event_type |-> df_ev[i].event_type]]

\* the summary without the wall-clock column
Durations(df_summary) ==
    [i \in 1..Len(df_summary) |-> [df_summary[i] EXCEPT !.bucket_start_ts = 0]]

StateSeconds(bucket, state) ==
    CASE state = "EXECUTE" -> bucket.execute_sec
      [] state = "STARVED" -> bucket.starved_sec
      [] state = "BLOCKED" -> bucket.blocked_sec
      [] state = "DOWN" -> bucket.down_sec
      [] state = "JAMMED" -> bucket.jammed_sec

\* seconds of `state` the table holds for bucket k of the machine (0 when no row)
SecondsIn(table, k, machine_name, state) ==
    IF <<k, machine_name>> \in DOMAIN table
    THEN StateSeconds(table[<<k, machine_name>>], state) ELSE 0

\* length of the overlap of [lo, hi] with [blo, bhi)
Overlap(lo, hi, blo, bhi) == Max(0, Min(hi, bhi) - Max(lo, blo))

RECURSIVE SumOver(_, _)
SumOver(S, f) ==
    IF S = {} THEN 0
    ELSE LET x == CHOOSE y \in S : TRUE IN f[x] + SumOver(S \ {x}, f)

\* every bucket index an interval of the model can touch
BucketIndexes == (0 - MaxDuration - 1)..(MaxSimTime + 1)

\* C7: on_state_change with a prev_state and a duration d > 0 at time t adds to
\* every bucket k exactly the overlap of [t-d, t] with [k*B, (k+1)*B) under
\* prev_state, whatever the number of boundaries crossed; the amounts added
\* sum to d and no other state's seconds change.
C7_BucketSplit ==
    [][(/\ ret'.op = "on_state_change"
        /\ ret'.prev_state \in TRACKED_STATES
        /\ IsSome(ret'.duration_sec)
        /\ Val(ret'.duration_sec) > 0)
       => LET t == ret'.sim_time_sec
              d == Val(ret'.duration_sec)
              m == ret'.machine_name
              p == ret'.prev_state
              B == bucket_size_sec
              added == [key \in DOMAIN buckets' |->
                          SecondsIn(buckets', key[1], key[2], p)
                              - SecondsIn(buckets, key[1], key[2], p)]
          IN /\ \A k \in BucketIndexes :
                    SecondsIn(buckets', k, m, p) - SecondsIn(buckets, k, m, p)
                        = Overlap(t - d, t, k * B, (k + 1) * B)
             /\ SumOver(DOMAIN buckets', added) = d
             /\ \A key \in DOMAIN buckets', q \in TRACKED_STATES \ {p} :
                    SecondsIn(buckets', key[1], key[2], q)
                        = SecondsIn(buckets, key[1], key[2], q)
      ]_vars

\* a duration of 4 ending at 3 with 2-tick buckets: it crosses the boundaries
\* at 0 and 2 and lands 1, 2 and 1 ticks in buckets -1, 0 and 1
C7_Witness ==
    /\ ret.op = "on_state_change"
    /\ ret.prev_state = "EXECUTE"
    /\ ret.duration_sec = Some(4)
    /\ ret.sim_time_sec = 3
    /\ bucket_size_sec = 2
    /\ event_index = 1
    /\ SecondsIn(buckets, 0 - 1, "Filler", "EXECUTE") = 1
    /\ SecondsIn(buckets, 0, "Filler", "EXECUTE") = 2
    /\ SecondsIn(buckets, 1, "Filler", "EXECUTE") = 1

(***************************************************************************)
(* Claims about get_detail_df                                              *)
(***************************************************************************)
DetailReturned == ret.op = "get_detail_df"

EdgePairs(g) == {<<g.edges[i].source, g.edges[i].target>> : i \in 1..Len(g.edges)}
Successors(g, S) == {p[2] : p \in {q \in EdgePairs(g) : q[1] \in S}}

\* the nodes reached from S by a path of 1..k edges
RECURSIVE ReachFrom(_, _, _)
ReachFrom(g, S, k) ==
    IF k = 0 THEN {}
    ELSE LET n == Successors(g, S) IN n \cup ReachFrom(g, n, k - 1)

HasCycle(g) == \E n \in SeqToSet(g.nodes) : n \in ReachFrom(g, {n}, Len(g.nodes))

Positions(s, x) == {i \in 1..Len(s) : s[i] = x}
Pos(s, x) == CHOOSE i \in Positions(s, x) : TRUE

\* C5: on an acyclic graph of N nodes topological_order() raises nothing, yields
\* each of the N nodes (special ones included) exactly once, and yields every
\* edge's source before its target.
C5_TopologicalOrderOfDag ==
    (ret.op = "topological_order" /\ ~HasCycle(Graph)) =>
        /\ ret.error = None
        /\ Len(ret.emitted) = Len(nodes)
        /\ \A n \in SeqToSet(nodes) : Cardinality(Positions(ret.emitted, n)) = 1
        /\ \A i \in 1..Len(edges) :
              Pos(ret.emitted, edges[i].source) < Pos(ret.emitted, edges[i].target)

C5_Witness ==
    /\ ret.op = "topological_order"
    /\ ~HasCycle(Graph)
    /\ Len(nodes) = 4
    /\ Len(edges) = 3
    /\ Cardinality(EdgePairs(Graph)) = 3

\* C6: on a graph with a directed cycle, exhausting topological_order() raises
\* CycleDetectedError after yielding fewer than N nodes, and the error reports
\* exactly the number of nodes yielded.
C6_TopologicalOrderOfCycle ==
    (ret.op = "topological_order" /\ HasCycle(Graph)) =>
        /\ ret.error = "CycleDetectedError"
        /\ Len(ret.emitted) < Len(nodes)
        /\ ret.reported = Some(Len(ret.emitted))

C6_Witness ==
    /\ ret.op = "topological_order"
    /\ HasCycle(Graph)
    /\ ret.error = "CycleDetectedError"
    /\ Len(ret.emitted) > 0

\* the ordinary nodes that no edge touches
Disconnected(g) ==
    {n \in SeqToSet(g.nodes) \ SPECIAL_NODES :
        \A p \in EdgePairs(g) : p[1] # n /\ p[2] # n}

\* the nodes whose outgoing edges are neither all conditioned nor all unconditioned
Mixed(g) ==
    {n \in SeqToSet(g.nodes) :
        \E i, j \in 1..Len(g.edges) :
            /\ g.edges[i].source = n /\ g.edges[j].source = n
            /\ g.edges[i].condition = None /\ g.edges[j].condition # None}

Reported(errors, msg) == {i \in 1..Len(errors) : errors[i].msg = msg}

\* C19: validate() returns no error exactly when the graph has an edge from
\* _source, an edge to _sink, no ordinary node without any edge, no cycle and no
\* node with both conditioned and unconditioned outgoing edges; and each of these
\* conditions that is violated is reported, once for the graph or once per node.
C19_Validate ==
    ret.op = "validate" =>
        LET from_source == \E p \in EdgePairs(Graph) : p[1] = "_source"
            to_sink == \E p \in EdgePairs(Graph) : p[2] = "_sink"
        IN /\ ret.error = None
           /\ ret.errors = <<>>
                  <=> /\ from_source /\ to_sink /\ Disconnected(Graph) = {}
                      /\ ~HasCycle(Graph) /\ Mixed(Graph) = {}
           /\ ret.is_valid <=> ret.errors = <<>>
           /\ Cardinality(Reported(ret.errors, NoInput.msg)) = IF from_source THEN 0 ELSE 1
           /\ Cardinality(Reported(ret.errors, NoOutput.msg)) = IF to_sink THEN 0 ELSE 1
           /\ Cardinality(Reported(ret.errors, CycleMessage(0, 0).msg))
                  = IF HasCycle(Graph) THEN 1 ELSE 0
           /\ Cardinality(Reported(ret.errors, OrphanNode("").msg))
                  = Cardinality(Disconnected(Graph))
           /\ {ret.errors[i].name : i \in Reported(ret.errors, OrphanNode("").msg)}
                  = Disconnected(Graph)
           /\ Cardinality(Reported(ret.errors, MixedNode("").msg)) = Cardinality(Mixed(Graph))
           /\ {ret.errors[i].name : i \in Reported(ret.errors, MixedNode("").msg)}
                  = Mixed(Graph)

\* validate has found nothing to report on a graph of three edges, the station's
\* outgoing edges all conditioned
C19_Witness ==
    /\ ret.op = "validate"
    /\ ret.errors = <<>>
    /\ ret.is_valid
    /\ Len(edges) = 3
    /\ \E i \in 1..Len(edges) : edges[i].condition # None

\* C20 (as stated): validate() on a graph with a cycle raises CycleDetectedError.
C20_ValidateRaises ==
    (ret.op = "validate" /\ HasCycle(Graph)) => ret.error = "CycleDetectedError"

\* the nodes that lie on a cycle or behind one
BehindCycle(g) ==
    {n \in SeqToSet(g.nodes) :
        \E c \in SeqToSet(g.nodes) :
            /\ c \in ReachFrom(g, {c}, Len(g.nodes))
            /\ n = c \/ n \in ReachFrom(g, {c}, Len(g.nodes))}

\* C20: validate() on a graph with a cycle raises nothing: it returns its list
\* of errors, in which exactly one entry is the message of the CycleDetectedError
\* that topological_order raised; the message gives the number of nodes ordered
\* before the cycle was detected, which is smaller than the number of nodes it
\* also gives, and the graph is not valid.
C20_ValidateReportsCycle ==
    (ret.op = "validate" /\ HasCycle(Graph)) =>
        /\ ret.error = None
        /\ ~ret.is_valid
        /\ \E i \in 1..Len(ret.errors) :
              /\ ret.errors[i] =
                     CycleMessage(Cardinality(SeqToSet(nodes) \ BehindCycle(Graph)), Len(nodes))
              /\ ret.errors[i].visited < ret.errors[i].total
              /\ \A j \in 1..Len(ret.errors) :
                    ret.errors[j].msg = ret.errors[i].msg => j = i

\* validate has returned the message of a cycle that was detected after the
\* source had been ordered
C20_Witness ==
    /\ ret.op = "validate"
    /\ HasCycle(Graph)
    /\ ret.error = None
    /\ \E i \in 1..Len(ret.errors) :
          ret.errors[i].msg = CycleMessage(0, 0).msg /\ ret.errors[i].visited > 0

(***************************************************************************)
(* Claims about LayoutBuilder.build                                        *)
(***************************************************************************)
\* C21: build() fails with an error when a node of the graph has both conditioned
\* and unconditioned outgoing edges, or an ordinary node has no MachineConfig, and
\* returns no layout for such a graph.
C21_BuildRejects ==
    (/\ ret.op = "build"
     /\ \/ Mixed(Graph) # {}
        \/ \E n \in SeqToSet(nodes) \ SPECIAL_NODES : n \notin DOMAIN ret.machine_configs)
    => ret.error # None /\ ~ret.layout

(***************************************************************************)
(* Claims about add_node and add_edge                                      *)
(***************************************************************************)
\* no self-loop, no node name twice, and every endpoint of an edge is a node
WellFormed(g) ==
    /\ \A i \in 1..Len(g.edges) :
          /\ g.edges[i].source # g.edges[i].target
          /\ \E j \in 1..Len(g.nodes) : g.nodes[j] = g.edges[i].source
          /\ \E j \in 1..Len(g.nodes) : g.nodes[j] = g.edges[i].target
    /\ \A i \in 1..Len(g.nodes) : \A j \in 1..(i - 1) : g.nodes[i] # g.nodes[j]

\* the names of the list that are not among the nodes, each once, in the list's order
Absent(g, names) ==
    SelectSeq(IF names[1] = names[2] THEN <<names[1]>> ELSE names,
              LAMBDA n : ~HasNode(g, n))

\* C22: add_node fails exactly on a name that is already a node and otherwise
\* adds it; an edge with source = target is never constructed; add_edge fails
\* exactly when an endpoint is an ordinary name that was never added, and
\* otherwise appends the edge after creating the special endpoints that were not
\* yet nodes; and after every call the graph has no self-loop, no duplicate node
\* name and no edge whose endpoint is not a node.
C22_GraphWellFormed ==
    [][/\ edges' # edges \/ nodes' # nodes => WellFormed([nodes |-> nodes', edges |-> edges'])
       /\ ret'.op = "add_node" =>
             IF HasNode(Graph, ret'.name)
             THEN ret'.error = "ValueError" /\ UNCHANGED topoVars
             ELSE /\ ret'.error = None
                  /\ nodes' = Append(nodes, ret'.name)
                  /\ edges' = edges
       /\ ret'.op = "BufferEdge" =>
             /\ ret'.source = ret'.target
             /\ ret'.error = "ValueError"
             /\ UNCHANGED topoVars
       /\ ret'.op = "add_edge" =>
             LET ends == <<ret'.source, ret'.target>>
                 absent == Absent(Graph, ends)
                 never_added == SelectSeq(absent, LAMBDA n : n \notin SPECIAL_NODES)
             IN /\ ret'.source # ret'.target
                /\ ret'.error = IF never_added # <<>> THEN "ValueError" ELSE None
                /\ IF never_added # <<>>
                   THEN /\ edges' = edges
                        /\ IsPrefix(nodes, nodes')
                        /\ SeqToSet(nodes') \ SeqToSet(nodes) \subseteq SPECIAL_NODES
                   ELSE /\ nodes' = nodes \o absent
                        /\ Len(edges') = Len(edges) + 1
                        /\ edges'[Len(edges')].source = ret'.source
                        /\ edges'[Len(edges')].target = ret'.target
                        /\ SubSeq(edges', 1, Len(edges)) = edges
                        /\ outgoing'[ret'.source][Len(outgoing'[ret'.source])]
                               = edges'[Len(edges')]
                        /\ incoming'[ret'.target][Len(incoming'[ret'.target])]
                               = edges'[Len(edges')]]_vars

\* add_edge has just failed on an endpoint that was never added, in a graph
\* that holds two edges and a special node created by an earlier add_edge
C22_Witness ==
    /\ ret.op = "add_edge"
    /\ ret.error = "ValueError"
    /\ Len(edges) = 2
    /\ "_sink" \in SeqToSet(nodes)
    /\ \E i, j \in 1..Len(edges) : i # j /\ edges[i].source = edges[j].target

(***************************************************************************)
(* Claims about finalize and the exports                                   *)
(***************************************************************************)
\* C23: finalize(T) adds, for every station whose last transition was before T,
\* the interval from that transition to T to the state the station entered
\* last, each bucket k receiving the overlap of the interval with
\* [k*B, (k+1)*B) as on_state_change splits a duration; nothing is added for any
\* other state or for a station whose last transition is at or after T, whose
\* rows stay as they are; counts, the event buffer and the last-state table are
\* untouched.
C23_Finalize ==
    [][ret'.op = "finalize" =>
         LET T == ret'.total_time_sec
             B == bucket_size_sec
             open(m) == m \in DOMAIN last_state /\ last_state[m][2] < T
         IN /\ \A m \in LoggedMachines, k \in BucketIndexes, q \in TRACKED_STATES :
                  SecondsIn(buckets', k, m, q) - SecondsIn(buckets, k, m, q)
                      = IF open(m) /\ q = last_state[m][1]
                        THEN Overlap(last_state[m][2], T, k * B, (k + 1) * B)
                        ELSE 0
            /\ \A key \in DOMAIN buckets' :
                  /\ key[1] \in BucketIndexes
                  /\ IF key \in DOMAIN buckets
                     THEN /\ buckets'[key].transition_count = buckets[key].transition_count
                          /\ buckets'[key].down_count = buckets[key].down_count
                          /\ buckets'[key].jammed_count = buckets[key].jammed_count
                          /\ ~open(key[2]) => buckets'[key] = buckets[key]
                     ELSE /\ open(key[2])
                          /\ buckets'[key].transition_count = 0
                          /\ Overlap(last_state[key[2]][2], T, key[1] * B, (key[1] + 1) * B) > 0
            /\ DOMAIN buckets \subseteq DOMAIN buckets'
            /\ UNCHANGED <<bucket_size_sec, sim_start_ts, event_buffer, interesting_indices,
                           event_index, last_state>>]_vars

\* finalize(3) with 2-tick buckets has closed the state station A entered at 0,
\* one tick of it in bucket 1, and has left alone station B, which entered its
\* state at 3 or later
C23_Witness ==
    /\ ret.op = "finalize"
    /\ ret.total_time_sec = 3
    /\ bucket_size_sec = 2
    /\ DOMAIN last_state = {"A", "B"}
    /\ last_state["A"] = <<"DOWN", 0>>
    /\ last_state["B"][2] >= 3
    /\ SecondsIn(buckets, 0, "A", "DOWN") = 2
    /\ SecondsIn(buckets, 1, "A", "DOWN") = 1

\* C24: get_summary_df and get_detail_df, called at any point, before or after
\* finalize, leave buckets, event buffer, interesting indices, event counter and
\* last-state table as they are, and what they return is what the same call
\* returns when it is made again with no event in between.
C24_ExportsReadOnly ==
    [][ret'.op \in {"get_summary_df", "get_detail_df"} =>
         LET after == [bucket_size_sec |-> bucket_size_sec', sim_start_ts |-> sim_start_ts',
                       buckets |-> buckets', event_buffer |-> event_buffer',
                       interesting_indices |-> interesting_indices',
                       event_index |-> event_index', last_state |-> last_state']
         IN /\ UNCHANGED aggVars
            /\ ret'.op = "get_summary_df" => ret'.rows = get_summary_df(after)
            /\ ret'.op = "get_detail_df" =>
                   /\ ret'.rows = get_detail_df(after).rows
                   /\ ret'.error = get_detail_df(after).error]_vars

\* the detail export has returned rows in the middle of a stream of events: an
\* interesting event is buffered, no finalize has been called
C24_Witness ==
    /\ ret.op = "get_detail_df"
    /\ ret.rows # <<>>
    /\ results = <<>>
    /\ event_index > 0
    /\ event_index < MaxCalls
    /\ buckets # <<>>

\* the positions of the buffer within a context window of a buffered DOWN or
\* JAMMED event
NearInteresting ==
    {i \in 1..Len(event_buffer) :
        \E j \in 1..Len(event_buffer) :
            /\ event_buffer[j].state \in INTERESTING_STATES
            /\ i - j <= CONTEXT_WINDOW
            /\ j - i <= CONTEXT_WINDOW}

\* C25: get_detail_df returns exactly the events that are still in the buffer
\* (the latest 100) and lie within 5 buffer positions of a DOWN or JAMMED event
\* that is still in the buffer, each of them once, and is_interesting is true
\* exactly on the rows whose state is DOWN or JAMMED; an event that was evicted
\* is in no result.
C25_DetailRows ==
    DetailReturned =>
        /\ ret.error = None
        /\ Len(event_buffer) <= EventBufferMaxLen
        /\ Len(ret.rows) = Cardinality(NearInteresting)
        /\ \A i \in NearInteresting :
              Cardinality({k \in 1..Len(ret.rows) :
                              /\ ret.rows[k].sim_time_sec = event_buffer[i].sim_time_sec
                              /\ ret.rows[k].machine_name = event_buffer[i].machine_name
                              /\ ret.rows[k].state = event_buffer[i].state}) = 1
        /\ \A k \in 1..Len(ret.rows) :
              ret.rows[k].is_interesting <=> ret.rows[k].state \in INTERESTING_STATES

(***************************************************************************)
(* Claims about the bucket totals                                          *)
(***************************************************************************)
\* the time of the first state change the station reported
FirstLog(machine_name) ==
    LET own == SelectSeq(event_buffer, LAMBDA ev : ev.machine_name = machine_name)
    IN own[1].sim_time_sec

\* the seconds of every tracked state in the row of bucket k of the station
RowTotal(k, machine_name) ==
    SumOver(TRACKED_STATES, [q \in TRACKED_STATES |-> SecondsIn(buckets, k, machine_name, q)])

\* finalize(T) has been called, at or after the last state change, and every
\* station that reported reported first at time 0
FinalizedFromZero ==
    /\ results # <<>>
    /\ results[1].total_time_sec >= LatestCall
    /\ \A m \in DOMAIN last_state : FirstLog(m) = 0

\* C26: when every station logs its first state at time 0 and finalize(T) is
\* called once after the last state change, the seconds of EXECUTE, STARVED,
\* BLOCKED, DOWN and JAMMED over all buckets of a station sum to T, and no row
\* of a bucket and a station totals more than bucket_size_sec.
C26_BucketTotals ==
    FinalizedFromZero =>
        \A m \in DOMAIN last_state :
            /\ SumOver(BucketIndexes, [k \in BucketIndexes |-> RowTotal(k, m)])
                   = results[1].total_time_sec
            /\ \A k \in BucketIndexes : RowTotal(k, m) <= bucket_size_sec
            /\ \A key \in DOMAIN buckets : key[1] \in BucketIndexes

\* station A entered a state at 0 and another at 3 and was finalized at 5 with
\* 2-tick buckets: rows 0, 1 and 2, row 1 holding a second of each state
C26_Witness ==
    /\ FinalizedFromZero
    /\ results[1].total_time_sec = 5
    /\ bucket_size_sec = 2
    /\ DOMAIN last_state = {"A"}
    /\ last_state["A"] = <<"DOWN", 3>>
    /\ SecondsIn(buckets, 1, "A", "EXECUTE") = 1
    /\ SecondsIn(buckets, 1, "A", "DOWN") = 1
    /\ RowTotal(0, "A") = 2
    /\ RowTotal(2, "A") = 1

(***************************************************************************)
(* Claims about the production counters                                    *)
(***************************************************************************)
\* what the monitor sums for a snapshot: a counter over all machines
TotalOf(counter(_)) ==
    SumOver(DOMAIN machines, [m \in DOMAIN machines |-> counter(machines[m])])
total_tubes == TotalOf(LAMBDA e : e.tubes_produced)
total_cases == TotalOf(LAMBDA e : e.cases_produced)
total_pallets == TotalOf(LAMBDA e : e.pallets_produced)

\* C27: at every instant the tubes_produced of all stations together are at most
\* the Filler's units_per_hour * now / 3600, that is now / cycle_time_sec of the
\* Filler.
C27_PhysicalLimit ==
    "Filler" \in DOMAIN machines =>
        total_tubes * machines["Filler"].cfg.cycle_time_sec <= env.now

\* the cycles of the station that are over: the outputs a store has accepted,
\* less the one whose put event the station has not yet been resumed with
Completed(m) ==
    Output(m) - (IF machines[m].pc = "inspect"
                    /\ ~\E s \in DOMAIN stores : Waiting(stores, s, m)
                 THEN 1 ELSE 0)

\* the Items of the type that Transform created in cycles that are over: one per
\* cycle of every station whose output_type is that type
CreatedOf(type) ==
    LET makers == {m \in DOMAIN machines : machines[m].cfg.output_type = type}
    IN SumOver(makers, [m \in makers |-> Completed(m)])

\* C28: at every instant the tubes_produced (cases_produced, pallets_produced)
\* of all stations together equal the number of Tube (Case, Pallet) Items that
\* Transform created in cycles that are over, and the three counters of a
\* pass-through station (output_type none) are 0.
C28_CountersByType ==
    /\ total_tubes = CreatedOf("Tube")
    /\ total_cases = CreatedOf("Case")
    /\ total_pallets = CreatedOf("Pallet")
    /\ \A m \in DOMAIN machines :
          machines[m].cfg.output_type = "None" =>
              /\ machines[m].tubes_produced = 0
              /\ machines[m].cases_produced = 0
              /\ machines[m].pallets_produced = 0

(***************************************************************************)
(* Claims about run_cycle                                                  *)
(***************************************************************************)
\* the phases started so far that returned a result
Returned == SelectSeq(results, LAMBDA x : IsSome(x.result))
\* a phase started so far returned should_continue = False
Aborted == \E i \in 1..Len(Returned) : ~Val(Returned[i].result).should_continue
\* the outputs of the latest phase that returned any, [] when none did
LatestOutputs ==
    LET with == SelectSeq(Returned, LAMBDA x : Val(x.result).outputs # <<>>)
    IN IF with = <<>> THEN <<>> ELSE Val(with[Len(with)].result).outputs
\* the outputs of the phase that ran last, [] when none ran or it returned none
PreviousOutputs ==
    IF results = <<>> THEN <<>>
    ELSE IF ~IsSome(results[Len(results)].result) THEN <<>>
    ELSE Val(results[Len(results)].result).outputs
\* the durations of the phases among the first n that returned should_continue = True
RECURSIVE ContinuedDuration(_)
ContinuedDuration(n) ==
    IF n = 0 THEN 0
    ELSE ContinuedDuration(n - 1)
         + (IF Val(Returned[n].result).should_continue
            THEN Val(Returned[n].result).duration_sec ELSE 0)
\* the durations of the first n phases that returned
RECURSIVE RanDuration(_)
RanDuration(n) ==
    IF n = 0 THEN 0 ELSE RanDuration(n - 1) + Val(Returned[n].result).duration_sec

\* C29 (as stated): once a phase has returned should_continue = False no phase is
\* started and the combined result carries should_continue = False; otherwise
\* every phase is given the outputs of the phase that ran before it, and the
\* combined duration is the sum of the durations of the phases that ran.
C29_RunCycleAsStated ==
    [][/\ ret'.op = "execute" =>
            /\ ~Aborted
            /\ ret'.inputs = PreviousOutputs
       /\ ret'.op = "run_cycle" =>
            /\ ret'.result.should_continue = ~Aborted
            /\ ~Aborted => ret'.result.duration_sec = RanDuration(Len(Returned))]_vars

\* C29: once a phase has returned should_continue = False no phase is started
\* and the combined result carries should_continue = False; every phase is given
\* the outputs of the latest earlier phase that returned a non-empty list (the
\* empty list when there is none); the combined duration is the sum of the
\* durations of the phases that returned should_continue = True, the aborting
\* phase's not included, and the combined outputs are those latest outputs.
C29_RunCycle ==
    [][/\ ret'.op = "execute" =>
            /\ ~Aborted
            /\ ret'.inputs = LatestOutputs
       /\ ret'.op = "run_cycle" =>
            /\ ret'.result.should_continue = ~Aborted
            /\ ret'.result.duration_sec = ContinuedDuration(Len(Returned))
            /\ ret'.result.outputs = LatestOutputs
            /\ Aborted => /\ ~Val(Returned[Len(Returned)].result).should_continue
                           /\ \A i \in 1..(Len(Returned) - 1) :
                                 Val(Returned[i].result).should_continue]_vars

\* a cycle of three phases has returned: the first returned [a], the second no
\* outputs, the third was given [a] and aborted after 2 ticks, which are not in
\* the combined duration
C29_Witness ==
    /\ ret.op = "run_cycle"
    /\ Len(results) = 3
    /\ results[1].result = Some(PhaseResult(<<"a">>, FALSE, TRUE, 1))
    /\ results[2].result = Some(PhaseResult(<<>>, FALSE, TRUE, 2))
    /\ results[3].inputs = <<"a">>
    /\ results[3].result = Some(PhaseResult(<<>>, FALSE, FALSE, 2))
    /\ ret.result = PhaseResult(<<"a">>, FALSE, FALSE, 3)

(***************************************************************************)
(* Claims about Transform                                                  *)
(***************************************************************************)
\* C30: the Item that Transform creates is defective exactly when a new defect
\* was drawn in the cycle or one of the collected inputs is defective, and its
\* genealogy is the uids of the collected inputs in order; a station with
\* output_type none passes on the first collected input as it is, constructs no
\* Product and reports no new defect.
C30_Transform ==
    [][\A m \in DOMAIN machines \cap DOMAIN machines' :
          machines[m].pc = "execute" /\ machines'[m].pc = "inspect" =>
              LET e == machines'[m]
                  collected_inputs == machines[m].context.collected_inputs
                  output_item == Val(e.context.transformed_output)
                  inherited == \E i \in 1..Len(collected_inputs) :
                                   collected_inputs[i].is_defective
              IN /\ Len(collected_inputs) = e.cfg.batch_in
                 /\ e.context.collected_inputs = collected_inputs
                 /\ Holds(stores', IF e.context.routed_to_reject THEN e.reject_store
                                    ELSE e.downstream, output_item.oid)
                 /\ IF e.cfg.output_type = "None"
                    THEN /\ output_item = collected_inputs[1]
                         /\ made' = made
                         /\ ~e.context.new_defect_created
                    ELSE /\ output_item.is_defective <=>
                                (e.context.new_defect_created \/ inherited)
                         /\ rng'.seeded =>
                                (e.context.new_defect_created <=>
                                    rng'.tape[rng.pos + 1] < e.cfg.defect_rate)
                         /\ output_item.genealogy =
                                [i \in 1..Len(collected_inputs) |-> collected_inputs[i].uid]
                         /\ output_item.type = e.cfg.output_type
                         /\ output_item.parent_machine = m
                         /\ made' = made + 1
                         /\ \A i \in 1..Len(collected_inputs) :
                                output_item.oid # collected_inputs[i].oid]_vars

\* the Packer has made a case of two tubes that is defective by inheritance
\* alone: one of the tubes was made defective by the Filler and passed on by the
\* Inspector
C30_Witness ==
    /\ "Packer" \in DOMAIN machines
    /\ "Inspector" \in DOMAIN machines
    /\ machines["Packer"].pc = "inspect"
    /\ IsSome(machines["Packer"].context.transformed_output)
    /\ LET output_item == Val(machines["Packer"].context.transformed_output)
       IN /\ output_item.type = "Case"
          /\ output_item.is_defective
          /\ ~machines["Packer"].context.new_defect_created
          /\ Len(output_item.genealogy) = 2
          /\ \E i \in 1..2 :
                /\ machines["Packer"].context.collected_inputs[i].is_defective
                /\ machines["Packer"].context.collected_inputs[i].parent_machine = "Filler"

(***************************************************************************)
(* Claims about the two implementations of Equipment.run                   *)
(***************************************************************************)
\* what the claim compares: every station's state with the time it was entered
\* and the time spent in each state so far, the clock, the number of draws made,
\* and the gets and puts the stores have served, in order
Observed(w) ==
    [now |-> w.env.now,
     stations |-> [m \in DOMAIN w.machines |->
                      [state |-> w.machines[m].state,
                       state_start_time |-> w.machines[m].state_start_time,
                       time_in_state |-> w.machines[m].time_in_state]],
     draws |-> w.rng.pos,
     gets |-> w.get_log,
     puts |-> w.put_log]

\* C31: on the same configuration and seed the orchestrated stations and the
\* hard-coded stations go through the same state transitions at the same times,
\* make the same number of draws and are served the same gets and puts: after
\* every step of both, what is observed of the two worlds is equal.
C31_Equivalent ==
    ret.op = "hard_step" => Observed(World) = Observed(results[1])

(***************************************************************************)
(* Claims about the suspension points                                      *)
(***************************************************************************)
\* the station has an event of the kind waiting in the queue of the environment
Pending(queue, kind, m) ==
    \E i \in 1..Len(queue) : queue[i].event.kind = kind /\ queue[i].event.proc = m
\* the station waits in the get queue of the store
WaitingToGet(table, s, m) ==
    \E i \in 1..Len(table[s].get_queue) : table[s].get_queue[i] = m
\* the station is suspended on a get, on a put, on a timeout
OnGet(q, table, m) == Pending(q, "StoreGet", m) \/ \E s \in DOMAIN table : WaitingToGet(table, s, m)
OnPut(q, table, m) == Pending(q, "StorePut", m) \/ \E s \in DOMAIN table : Waiting(table, s, m)
OnTimeout(q, m) == Pending(q, "Timeout", m)
\* the store holds as many items as its capacity
AtCapacity(store) == IsSome(store.capacity) /\ Len(store.items) = Val(store.capacity)

\* C32: a station suspended on a get is STARVED, one suspended on a put is
\* BLOCKED, one suspended on a timeout is DOWN, JAMMED or EXECUTE, and a started
\* station is suspended on exactly one of the three; the clock advances past a
\* BLOCKED station, and BLOCKED time is added to its time_in_state, only while the
\* station waits in the put queue of a store that is at capacity.
C32_SuspensionStates ==
    [][/\ \A m \in DOMAIN machines' :
            LET e == machines'[m]
                on_get == OnGet(env'.queue, stores', m)
                on_put == OnPut(env'.queue, stores', m)
                on_timeout == OnTimeout(env'.queue, m)
            IN /\ on_get => e.state = "STARVED"
               /\ on_put => e.state = "BLOCKED"
               /\ on_timeout => e.state \in {"DOWN", "JAMMED", "EXECUTE"}
               /\ e.state # "IDLE" =>
                      /\ on_get \/ on_put \/ on_timeout
                      /\ ~(on_get /\ on_put) /\ ~(on_get /\ on_timeout)
                      /\ ~(on_put /\ on_timeout)
       /\ env'.now > env.now =>
            \A m \in DOMAIN machines :
                machines[m].state = "BLOCKED" =>
                    \E s \in DOMAIN stores : Waiting(stores, s, m) /\ AtCapacity(stores[s])
       /\ \A m \in DOMAIN machines \cap DOMAIN machines' :
            machines'[m].time_in_state["BLOCKED"] > machines[m].time_in_state["BLOCKED"] =>
                /\ machines[m].state = "BLOCKED"
                /\ machines'[m].time_in_state["BLOCKED"] - machines[m].time_in_state["BLOCKED"]
                       = env'.now - machines[m].state_start_time]_vars

\* a station has spent time BLOCKED in the put queue of a buffer at capacity and
\* is now STARVED, suspended on a get, while another is suspended on a timeout
C32_Witness ==
    \E m, n \in DOMAIN machines :
        /\ machines[m].time_in_state["BLOCKED"] > 0
        /\ machines[m].state = "STARVED"
        /\ OnGet(env.queue, stores, m)
        /\ OnTimeout(env.queue, n)

(***************************************************************************)
(* Claims about the time accounting of a station                           *)
(***************************************************************************)
\* Equipment.total_time_sec
total_time_sec(e) == SumOver(DOMAIN e.time_in_state, e.time_in_state)

\* C33: for every station at every instant the five time_in_state accumulators
\* plus the time spent in the current state add up to now; a station is IDLE
\* only at time 0; a state change adds exactly now - state_start_time to the
\* accumulator of the state it leaves and to no other, and a step without a
\* state change leaves the accumulators and state_start_time alone.
C33_TimeAccounting ==
    [][\A m \in DOMAIN machines' :
          LET e == machines'[m]
          IN /\ DOMAIN e.time_in_state = {"STARVED", "EXECUTE", "DOWN", "JAMMED", "BLOCKED"}
             /\ total_time_sec(e) + (env'.now - e.state_start_time) = env'.now
             /\ e.state = "IDLE" => env'.now = 0 /\ e.state_start_time = 0
             /\ m \in DOMAIN machines =>
                    LET d == machines[m]
                    IN IF e.state # d.state
                       THEN /\ e.state_start_time = env'.now
                            /\ \A s \in DOMAIN e.time_in_state :
                                   e.time_in_state[s] =
                                       d.time_in_state[s]
                                       + (IF s = d.state THEN env'.now - d.state_start_time
                                          ELSE 0)
                       ELSE /\ e.time_in_state = d.time_in_state
                            /\ e.state_start_time = d.state_start_time]_vars

\* a station has been in two of the states for a while and is in the middle
\* of a later stay
C33_Witness ==
    \E m \in DOMAIN machines :
        /\ Cardinality({s \in DOMAIN machines[m].time_in_state :
                            machines[m].time_in_state[s] > 0}) >= 2
        /\ env.now > machines[m].state_start_time
        /\ machines[m].state_start_time > 0

(***************************************************************************)
(* Claims about the aggregator of a running line                           *)
(***************************************************************************)
\* the rows of the table that belong to the machine
RowsOf(table, machine_name) == {key \in DOMAIN table : key[2] = machine_name}
\* the seconds of the state over all rows of the machine
AggregatedSeconds(table, machine_name, state) ==
    LET rows == RowsOf(table, machine_name)
    IN SumOver(rows, [key \in rows |-> StateSeconds(table[key], state)])
\* transition_count over all rows of the machine
AggregatedTransitions(table, machine_name) ==
    LET rows == RowsOf(table, machine_name)
    IN SumOver(rows, [key \in rows |-> table[key].transition_count])

\* C34: while the line runs, for every station that reports to the aggregator
\* and every tracked state, the seconds of the state summed over the station's
\* buckets equal the station's time_in_state accumulator, and the
\* transition_count summed over its buckets is the number of state changes the
\* station has logged (two debug log rows each).
C34_AggregatorAgrees ==
    \A m \in DOMAIN machines :
        LET e == machines[m]
        IN e.event_aggregator =>
              /\ \A state \in TRACKED_STATES :
                     AggregatedSeconds(buckets, e.cfg.name, state) = e.time_in_state[state]
              /\ e.debug_events =>
                     2 * AggregatedTransitions(buckets, e.cfg.name) = Len(e.event_log)

\* a reporting station has logged at least three state changes and has time in
\* two states, one of them spread over more than one bucket
C34_Witness ==
    \E m \in DOMAIN machines :
        LET e == machines[m]
        IN /\ e.event_aggregator /\ e.debug_events
           /\ Len(e.event_log) >= 6
           /\ Cardinality({s \in TRACKED_STATES : e.time_in_state[s] > 0}) >= 2
           /\ \E s \in TRACKED_STATES :
                  Cardinality({key \in RowsOf(buckets, e.cfg.name) :
                                  StateSeconds(buckets[key], s) > 0}) >= 2

(***************************************************************************)
(* Claims about a repeated finalize                                        *)
(***************************************************************************)
\* C35: a second finalize(T) with the same T, with no state change in between,
\* leaves every BucketStats row as it was after the first call.
C35_FinalizeIdempotent == ret.op = "finalize_again" => buckets = ret.rows

(***************************************************************************)
(* Claims about failed calls                                               *)
(***************************************************************************)
\* C36: an add_edge call that raises leaves the graph as it was: the nodes, the
\* edges and the adjacency lists are those from before the call, and no special
\* node created by the failed call remains.
C36_FailedAddEdge ==
    [][(ret'.op = "add_edge" /\ ret'.error # None) =>
          /\ nodes' = nodes
          /\ edges' = edges
          /\ outgoing' = outgoing
          /\ incoming' = incoming]_vars

\* C37: when build() fails, because of a cycle or of an ordinary node without
\* a MachineConfig, no Equipment has been created and no process has been
\* started in the environment.
C37_FailedBuild ==
    (ret.op = "build" /\ ret.error # None) =>
        /\ machines = <<>>
        /\ \A i \in 1..Len(env.queue) : env.queue[i].event.kind # "Initialize"

(***************************************************************************)
(* Claims about the store a routing table returns                          *)
(***************************************************************************)
\* C38: the store get_route returns belongs to an edge whose condition the
\* product satisfies or to an edge without a condition, never only to
\* conditioned edges that the product does not satisfy.
C38_NoUnsatisfiedRoute ==
    (ret.op = "get_route" /\ IsSome(ret.store)) =>
        LET routes == Connections(Graph, "X").downstream_routes
        IN \E i \in Satisfied(routes, ret.product) \cup Unconditioned(routes) :
               routes[i].store = Val(ret.store)

(***************************************************************************)
(* Claims about the graphs validate accepts                                *)
(***************************************************************************)
\* the nodes that the edges lead to from the nodes of S, S included
RECURSIVE ReachableFrom(_, _)
ReachableFrom(list, S) ==
    LET T == S \cup {list[i].target : i \in {j \in 1..Len(list) : list[j].source \in S}}
    IN IF T = S THEN S ELSE ReachableFrom(list, T)

\* C39: in a graph for which validate() reports no error, every ordinary node
\* is reachable from _source and can reach _sink or _reject.
C39_ValidatedConnected ==
    (ret.op = "validate" /\ ret.errors = <<>>) =>
        \A n \in SeqToSet(nodes) \ SPECIAL_NODES :
            /\ n \in ReachableFrom(edges, {"_source"})
            /\ ReachableFrom(edges, {n}) \cap {"_sink", "_reject"} # {}

(***************************************************************************)
(* Claims about the identity of the Products of repeated runs              *)
(***************************************************************************)
\* the ids and the lineage lists of the Products a run has left, store by store
\* in the order the stores hold them
Identity(items) ==
    [s \in DOMAIN items |->
        [i \in 1..Len(items[s]) |-> [uid |-> items[s][i].uid,
                                     genealogy |-> items[s][i].genealogy]]]

\* C40: two runs with the same seed, topology and configs give corresponding
\* Products the same ids and the same lineage lists.
C40_ReproducibleIdentity ==
    \A i \in 1..Len(results) : Identity(results[i].items) = Identity(results[1].items)

====
